---- MODULE Spec2Model ----
(***************************************************************************)
(* Model of the Encrypt tutoring client: the chat turn controller          *)
(* (handleSendMessage, handleFileUpload), the visualization pipeline       *)
(* (extractVisualization, handleGenerateImage) and the service layer       *)
(* (sendMessageToGemini, generateImage) of src/App.tsx.                    *)
(*                                                                         *)
(* A JavaScript string is modelled as a sequence of one-character strings, *)
(* so that the regular expressions, trim(), toLowerCase() and includes()   *)
(* of the source are computed character by character.                      *)
(***************************************************************************)
EXTENDS Integers, Sequences, FiniteSets, TLC

(***************************************************************************)
(* String literals of the source.                                          *)
(***************************************************************************)

\* The grave accent (U+0060): the module's lexer does not accept it inside a
\* string, so the character is written by name.
Grave ==
    "GRAVE"

\* '(grave)(grave)(grave)'
Fence ==
    << Grave, Grave, Grave >>

\* 'mermaid'
TagMermaid ==
    << "m", "e", "r", "m", "a", "i", "d" >>

\* 'flowchart'
TagFlowchart ==
    << "f", "l", "o", "w", "c", "h", "a", "r", "t" >>

\* 'text'
TagText ==
    << "t", "e", "x", "t" >>

\* 'sequenceDiagram'
TagSequenceDiagram ==
    << "s", "e", "q", "u", "e", "n", "c", "e", "D", "i", "a", "g", "r", "a", "m" >>

\* 'graph'
KwGraph ==
    << "g", "r", "a", "p", "h" >>

\* 'classDiagram'
KwClassDiagram ==
    << "c", "l", "a", "s", "s", "D", "i", "a", "g", "r", "a", "m" >>

\* 'stateDiagram'
KwStateDiagram ==
    << "s", "t", "a", "t", "e", "D", "i", "a", "g", "r", "a", "m" >>

\* 'erDiagram'
KwErDiagram ==
    << "e", "r", "D", "i", "a", "g", "r", "a", "m" >>

\* 'gantt'
KwGantt ==
    << "g", "a", "n", "t", "t" >>

\* 'pie'
KwPie ==
    << "p", "i", "e" >>

\* 'gitGraph'
KwGitGraph ==
    << "g", "i", "t", "G", "r", "a", "p", "h" >>

\* 'journey'
KwJourney ==
    << "j", "o", "u", "r", "n", "e", "y" >>

\* 'C4Context'
KwC4Context ==
    << "C", "4", "C", "o", "n", "t", "e", "x", "t" >>

\* '-->'
Arrow ==
    << "-", "-", ">" >>

\* '[CONCEPTUAL_VISUAL:'
ConceptualOpen ==
    << "[", "C", "O", "N", "C", "E", "P", "T", "U", "A", "L", "_", "V", "I", "S", "U", "A",
       "L", ":" >>

\* 'give'
VerbGive ==
    << "g", "i", "v", "e" >>

\* 'write'
VerbWrite ==
    << "w", "r", "i", "t", "e" >>

\* 'show'
VerbShow ==
    << "s", "h", "o", "w" >>

\* 'code'
NounCode ==
    << "c", "o", "d", "e" >>

\* 'answer'
NounAnswer ==
    << "a", "n", "s", "w", "e", "r" >>

\* 'solution'
NounSolution ==
    << "s", "o", "l", "u", "t", "i", "o", "n" >>

\* 'full'
NounFull ==
    << "f", "u", "l", "l" >>

\* 'logic'
WordLogic ==
    << "l", "o", "g", "i", "c" >>

\* 'explain'
WordExplain ==
    << "e", "x", "p", "l", "a", "i", "n" >>

\* 'diagram'
WordDiagram ==
    << "d", "i", "a", "g", "r", "a", "m" >>

\* '403'
Str403 ==
    << "4", "0", "3" >>

\* 'Permission denied'
StrPermissionDenied ==
    << "P", "e", "r", "m", "i", "s", "s", "i", "o", "n", " ", "d", "e", "n", "i", "e", "d" >>

\* 'Greetings. I am **Encrypt**.'
WelcomeText ==
    << "G", "r", "e", "e", "t", "i", "n", "g", "s", ".", " ", "I", " ", "a", "m", " ", "*",
       "*", "E", "n", "c", "r", "y", "p", "t", "*", "*", "." >>

\* 'Think First! No direct code.'
InitialToast ==
    << "T", "h", "i", "n", "k", " ", "F", "i", "r", "s", "t", "!", " ", "N", "o", " ", "d",
       "i", "r", "e", "c", "t", " ", "c", "o", "d", "e", "." >>

\* "Think First! I cannot provide code directly. Let's discuss the logic."
RejectionToast ==
    << "T", "h", "i", "n", "k", " ", "F", "i", "r", "s", "t", "!", " ", "I", " ", "c", "a",
       "n", "n", "o", "t", " ", "p", "r", "o", "v", "i", "d", "e", " ", "c", "o", "d", "e",
       " ", "d", "i", "r", "e", "c", "t", "l", "y", ".", " ", "L", "e", "t", "'", "s", " ",
       "d", "i", "s", "c", "u", "s", "s", " ", "t", "h", "e", " ", "l", "o", "g", "i", "c",
       "." >>

\* 'Access Denied. Please select a paid API Key.'
AccessDeniedToast ==
    << "A", "c", "c", "e", "s", "s", " ", "D", "e", "n", "i", "e", "d", ".", " ", "P", "l",
       "e", "a", "s", "e", " ", "s", "e", "l", "e", "c", "t", " ", "a", " ", "p", "a", "i",
       "d", " ", "A", "P", "I", " ", "K", "e", "y", "." >>

\* "I see. Let's explore the structure of this logic."
FallbackReplyText ==
    << "I", " ", "s", "e", "e", ".", " ", "L", "e", "t", "'", "s", " ", "e", "x", "p", "l",
       "o", "r", "e", " ", "t", "h", "e", " ", "s", "t", "r", "u", "c", "t", "u", "r", "e",
       " ", "o", "f", " ", "t", "h", "i", "s", " ", "l", "o", "g", "i", "c", "." >>

\* 'Logical connection reset. Please rephrase.'
ErrorReplyText ==
    << "L", "o", "g", "i", "c", "a", "l", " ", "c", "o", "n", "n", "e", "c", "t", "i", "o",
       "n", " ", "r", "e", "s", "e", "t", ".", " ", "P", "l", "e", "a", "s", "e", " ", "r",
       "e", "p", "h", "r", "a", "s", "e", "." >>

\* 'File processed.'
FileProcessedText ==
    << "F", "i", "l", "e", " ", "p", "r", "o", "c", "e", "s", "s", "e", "d", "." >>

\* 'I have updated my mentor status and am analyzing your logic further.'
StatusOnlyText ==
    << "I", " ", "h", "a", "v", "e", " ", "u", "p", "d", "a", "t", "e", "d", " ", "m", "y",
       " ", "m", "e", "n", "t", "o", "r", " ", "s", "t", "a", "t", "u", "s", " ", "a", "n",
       "d", " ", "a", "m", " ", "a", "n", "a", "l", "y", "z", "i", "n", "g", " ", "y", "o",
       "u", "r", " ", "l", "o", "g", "i", "c", " ", "f", "u", "r", "t", "h", "e", "r", "." >>

\* 'I\'ve uploaded "'
UploadMsgPrefix ==
    << "I", "'", "v", "e", " ", "u", "p", "l", "o", "a", "d", "e", "d", " ", "\"" >>

\* '" for your structural review.'
UploadMsgSuffix ==
    << "\"", " ", "f", "o", "r", " ", "y", "o", "u", "r", " ", "s", "t", "r", "u", "c", "t",
       "u", "r", "a", "l", " ", "r", "e", "v", "i", "e", "w", "." >>

\* 'Review this logic draft from file "'
ReviewPrefix ==
    << "R", "e", "v", "i", "e", "w", " ", "t", "h", "i", "s", " ", "l", "o", "g", "i", "c",
       " ", "d", "r", "a", "f", "t", " ", "f", "r", "o", "m", " ", "f", "i", "l", "e", " ",
       "\"" >>

\* '":\n\n'
ReviewMiddle ==
    << "\"", ":", "\n", "\n" >>

\* 'Explain this using a real-world analogy.'
AnalogyPrompt ==
    << "E", "x", "p", "l", "a", "i", "n", " ", "t", "h", "i", "s", " ", "u", "s", "i", "n",
       "g", " ", "a", " ", "r", "e", "a", "l", "-", "w", "o", "r", "l", "d", " ", "a", "n",
       "a", "l", "o", "g", "y", "." >>

\* 'Give me a short quiz to test my understanding.'
QuizPrompt ==
    << "G", "i", "v", "e", " ", "m", "e", " ", "a", " ", "s", "h", "o", "r", "t", " ", "q",
       "u", "i", "z", " ", "t", "o", " ", "t", "e", "s", "t", " ", "m", "y", " ", "u", "n",
       "d", "e", "r", "s", "t", "a", "n", "d", "i", "n", "g", "." >>

\* 'How is this used in a real-world application?'
RealWorldPrompt ==
    << "H", "o", "w", " ", "i", "s", " ", "t", "h", "i", "s", " ", "u", "s", "e", "d", " ",
       "i", "n", " ", "a", " ", "r", "e", "a", "l", "-", "w", "o", "r", "l", "d", " ", "a",
       "p", "p", "l", "i", "c", "a", "t", "i", "o", "n", "?" >>

\* 'Please provide an image or a diagram to explain the current concept. Appreciate it if you include a [CONCEPTUAL_VISUAL: ...] tag for a detailed vision.'
VisualizePrompt ==
    << "P", "l", "e", "a", "s", "e", " ", "p", "r", "o", "v", "i", "d", "e", " ", "a", "n",
       " ", "i", "m", "a", "g", "e", " ", "o", "r", " ", "a", " ", "d", "i", "a", "g", "r",
       "a", "m", " ", "t", "o", " ", "e", "x", "p", "l", "a", "i", "n", " ", "t", "h", "e",
       " ", "c", "u", "r", "r", "e", "n", "t", " ", "c", "o", "n", "c", "e", "p", "t", ".",
       " ", "A", "p", "p", "r", "e", "c", "i", "a", "t", "e", " ", "i", "t", " ", "i", "f",
       " ", "y", "o", "u", " ", "i", "n", "c", "l", "u", "d", "e", " ", "a", " ", "[", "C",
       "O", "N", "C", "E", "P", "T", "U", "A", "L", "_", "V", "I", "S", "U", "A", "L", ":",
       " ", ".", ".", ".", "]", " ", "t", "a", "g", " ", "f", "o", "r", " ", "a", " ", "d",
       "e", "t", "a", "i", "l", "e", "d", " ", "v", "i", "s", "i", "o", "n", "." >>

\* 'data:'
DataUrlPrefix ==
    << "d", "a", "t", "a", ":" >>

\* ';base64,'
DataUrlMiddle ==
    << ";", "b", "a", "s", "e", "6", "4", "," >>

(***************************************************************************)
(* String primitives.                                                      *)
(***************************************************************************)

\* The upper-case letters and what toLowerCase() makes of them.
LowerOf ==
    [A |-> "a", B |-> "b", C |-> "c", D |-> "d", E |-> "e", F |-> "f", G |-> "g",
     H |-> "h", I |-> "i", J |-> "j", K |-> "k", L |-> "l", M |-> "m", N |-> "n",
     O |-> "o", P |-> "p", Q |-> "q", R |-> "r", S |-> "s", T |-> "t", U |-> "u",
     V |-> "v", W |-> "w", X |-> "x", Y |-> "y", Z |-> "z"]

\* \s of a JavaScript regular expression and the characters trim() strips.
WhiteSpace ==
    {" ", "\n", "\t", "\r"}

\* The characters that `.` of a JavaScript regular expression does not match.
LineTerminator ==
    {"\n", "\r"}

toLowerChar(c) ==
    IF c \in DOMAIN LowerOf THEN LowerOf[c] ELSE c

toLowerCase(s) ==
    [i \in 1..Len(s) |-> toLowerChar(s[i])]

\* w occurs in s at position p.
startsAt(s, p, w) ==
    /\ p >= 1
    /\ p + Len(w) - 1 <= Len(s)
    /\ \A i \in 1..Len(w) : s[p + i - 1] = w[i]

\* w occurs in s at position p, ignoring case (the i flag).
startsAtI(s, p, w) ==
    /\ p >= 1
    /\ p + Len(w) - 1 <= Len(s)
    /\ \A i \in 1..Len(w) : toLowerChar(s[p + i - 1]) = toLowerChar(w[i])

includes(s, w) ==
    \E p \in 1..(Len(s) + 1) : startsAt(s, p, w)

SetMin(S) ==
    CHOOSE x \in S : \A y \in S : x <= y

RECURSIVE firstSolid(_, _)
\* The first position from i on that holds no white space, Len(s) + 1 if none.
firstSolid(s, i) ==
    IF i > Len(s) \/ s[i] \notin WhiteSpace THEN i ELSE firstSolid(s, i + 1)

RECURSIVE lastSolid(_, _)
\* The last position up to i that holds no white space, 0 if none.
lastSolid(s, i) ==
    IF i < 1 \/ s[i] \notin WhiteSpace THEN i ELSE lastSolid(s, i - 1)

\* String.prototype.trim.
trim(s) ==
    LET first == firstSolid(s, 1)
        last == lastSolid(s, Len(s))
    IN  IF first > last THEN <<>> ELSE SubSeq(s, first, last)

(***************************************************************************)
(* The regular expressions of App.tsx.                                     *)
(***************************************************************************)

CheatVerbs ==
    {VerbGive, VerbWrite, VerbShow}

CheatNouns ==
    {NounCode, NounAnswer, NounSolution, NounFull}

\* /(give|write|show).*(code|answer|solution|full)/i .test(s)
cheatRegexTest(s) ==
    \E p \in 1..Len(s) : \E v \in CheatVerbs :
        /\ startsAtI(s, p, v)
        /\ \E q \in (p + Len(v))..Len(s) : \E n \in CheatNouns :
              /\ startsAtI(s, q, n)
              /\ \A k \in (p + Len(v))..(q - 1) : s[k] \notin LineTerminator

MitigatingWords ==
    {WordLogic, WordExplain, WordDiagram}

\* Variants of gateRefuses.  The first refuses only a text that holds a
\* mitigating word, the second refuses unless every mitigating word is there,
\* the third tests the custom prompts as well.
gateRefusesOnlyMitigated(messageText, customPrompt) ==
    /\ customPrompt = <<>>
    /\ cheatRegexTest(messageText)
    /\ \E w \in MitigatingWords : includes(toLowerCase(messageText), w)

gateRefusesUnlessAllWords(messageText, customPrompt) ==
    /\ customPrompt = <<>>
    /\ cheatRegexTest(messageText)
    /\ \E w \in MitigatingWords : ~includes(toLowerCase(messageText), w)

gateRefusesCustomToo(messageText, customPrompt) ==
    /\ cheatRegexTest(messageText)
    /\ \A w \in MitigatingWords : ~includes(toLowerCase(messageText), w)

\* The gate of handleSendMessage: TRUE when the submission is refused.
gateRefuses(messageText, customPrompt) ==
    /\ customPrompt = <<>>
    /\ cheatRegexTest(messageText)
    /\ \A w \in MitigatingWords : ~includes(toLowerCase(messageText), w)

LangTags ==
    <<TagMermaid, TagFlowchart, TagText, TagSequenceDiagram>>

DiagramKeywords ==
    {KwGraph, TagFlowchart, TagSequenceDiagram, KwClassDiagram, KwStateDiagram,
     KwErDiagram, KwGantt, KwPie, KwGitGraph, KwJourney, KwC4Context}

\* Length of the optional (?:mermaid|flowchart|text|sequenceDiagram)? at p.
langTagLen(text, p) ==
    IF \E i \in 1..Len(LangTags) : startsAtI(text, p, LangTags[i])
    THEN Len(LangTags[SetMin({i \in 1..Len(LangTags) : startsAtI(text, p, LangTags[i])})])
    ELSE 0

\* First position at or after p that holds no white space (\s* is greedy).
skipSpace(text, p) ==
    SetMin({k \in p..(Len(text) + 1) : k = Len(text) + 1 \/ text[k] \notin WhiteSpace})

\* Where the match of mermaidRegex that opens at p captures and closes:
\* <<first, last, next>> are the bounds of group 1 and the new lastIndex,
\* or <<>> when no match opens at p.
mermaidMatchAt(text, p) ==
    IF ~startsAt(text, p, Fence) THEN <<>>
    ELSE LET body == skipSpace(text, p + 3 + langTagLen(text, p + 3))
             closes == {c \in body..Len(text) : startsAt(text, c, Fence)}
         IN  IF closes = {} THEN <<>>
             ELSE <<body, SetMin(closes) - 1, SetMin(closes) + 3>>

RECURSIVE mermaidCaptures(_, _)
\* Group 1 of every match of mermaidRegex.exec(text), from lastIndex on.
mermaidCaptures(text, lastIndex) ==
    LET opens == {p \in lastIndex..Len(text) : mermaidMatchAt(text, p) # <<>>}
    IN  IF opens = {} THEN <<>>
        ELSE LET m == mermaidMatchAt(text, SetMin(opens))
             IN  <<SubSeq(text, m[1], m[2])>> \o mermaidCaptures(text, m[3])

\* The test of line 145 on the trimmed capture.
isDiagramSource(content) ==
    \/ \E kw \in DiagramKeywords : startsAtI(content, 1, kw)
    \/ includes(content, Arrow)

\* <<first, last, next>> of group 1 of conceptualRegex matching at p, or <<>>.
conceptualMatchAt(text, p) ==
    IF ~startsAtI(text, p, ConceptualOpen) THEN <<>>
    ELSE LET after == p + Len(ConceptualOpen)
             closes == {e \in after..Len(text) : text[e] = "]"}
         IN  IF closes = {} \/ SetMin(closes) = after THEN <<>>
             ELSE LET e == SetMin(closes)
                      w == skipSpace(text, after)
                  IN  <<IF w < e THEN w ELSE e - 1, e - 1, e + 1>>

RECURSIVE conceptualCaptures(_, _)
\* Group 1 of every match of text.matchAll(conceptualRegex).
conceptualCaptures(text, from) ==
    LET opens == {p \in from..Len(text) : conceptualMatchAt(text, p) # <<>>}
    IN  IF opens = {} THEN <<>>
        ELSE LET m == conceptualMatchAt(text, SetMin(opens))
             IN  <<SubSeq(text, m[1], m[2])>> \o conceptualCaptures(text, m[3])

(***************************************************************************)
(* Texts of the environment: what is typed, uploaded and answered.         *)
(***************************************************************************)

\* 'give me the full code'
GiveMeTheFullCode ==
    << "g", "i", "v", "e", " ", "m", "e", " ", "t", "h", "e", " ", "f", "u", "l", "l", " ",
       "c", "o", "d", "e" >>

\* 'give me the full code, explain the logic'
GiveCodeExplainLogic ==
    << "g", "i", "v", "e", " ", "m", "e", " ", "t", "h", "e", " ", "f", "u", "l", "l", " ",
       "c", "o", "d", "e", ",", " ", "e", "x", "p", "l", "a", "i", "n", " ", "t", "h", "e",
       " ", "l", "o", "g", "i", "c" >>

\* 'Show the full answer.'
ShowFullAnswerPrompt ==
    << "S", "h", "o", "w", " ", "t", "h", "e", " ", "f", "u", "l", "l", " ", "a", "n", "s",
       "w", "e", "r", "." >>

\* '...(grave)(grave)(grave)mermaid\nflowchart TD; A-->B(grave)(grave)(grave)...'
DiagramReplyText ==
    << ".", ".", ".", Grave, Grave, Grave, "m", "e", "r", "m", "a", "i", "d", "\n", "f", "l",
       "o", "w", "c", "h", "a", "r", "t", " ", "T", "D", ";", " ", "A", "-", "-", ">", "B",
       Grave, Grave, Grave, ".", ".", "." >>

\* 'flowchart TD; A-->B'
FlowchartTDAB ==
    << "f", "l", "o", "w", "c", "h", "a", "r", "t", " ", "T", "D", ";", " ", "A", "-", "-",
       ">", "B" >>

\* 'Use [CONCEPTUAL_VISUAL: a red cube] here'
RedCubeReplyText ==
    << "U", "s", "e", " ", "[", "C", "O", "N", "C", "E", "P", "T", "U", "A", "L", "_", "V",
       "I", "S", "U", "A", "L", ":", " ", "a", " ", "r", "e", "d", " ", "c", "u", "b", "e",
       "]", " ", "h", "e", "r", "e" >>

\* 'Consider the base case.'
PlainReplyText ==
    << "C", "o", "n", "s", "i", "d", "e", "r", " ", "t", "h", "e", " ", "b", "a", "s", "e",
       " ", "c", "a", "s", "e", "." >>

\* 'image/png'
MimePng ==
    << "i", "m", "a", "g", "e", "/", "p", "n", "g" >>

\* 'iVBOR'
PngData ==
    << "i", "V", "B", "O", "R" >>

\* 'Forbidden'
ForbiddenMessage ==
    << "F", "o", "r", "b", "i", "d", "d", "e", "n" >>

\* 'Permission denied on resource'
DeniedMessage ==
    << "P", "e", "r", "m", "i", "s", "s", "i", "o", "n", " ", "d", "e", "n", "i", "e", "d",
       " ", "o", "n", " ", "r", "e", "s", "o", "u", "r", "c", "e" >>

\* 'Failed to fetch'
NetworkMessage ==
    << "F", "a", "i", "l", "e", "d", " ", "t", "o", " ", "f", "e", "t", "c", "h" >>

\* 'draft.py'
DraftFileName ==
    << "d", "r", "a", "f", "t", ".", "p", "y" >>

\* 'x = 1'
DraftFileContent ==
    << "x", " ", "=", " ", "1" >>

\* 'a red cube'
RedCubePrompt ==
    << "a", " ", "r", "e", "d", " ", "c", "u", "b", "e" >>

\* '[CONCEPTUAL_VISUAL: a red cube](grave)(grave)(grave)mermaid\nA-->B(grave)(grave)(grave)\n(grave)(grave)(grave)text\nprint(1)(grave)(grave)(grave)\n(grave)(grave)(grave) (grave)(grave)(grave)\n[CONCEPTUAL_VISUAL: a blue ball](grave)(grave)(grave)mermaid\nGraph LR; C---D(grave)(grave)(grave)'
BlueprintReplyText ==
    << "[", "C", "O", "N", "C", "E", "P", "T", "U", "A", "L", "_", "V", "I", "S", "U", "A",
       "L", ":", " ", "a", " ", "r", "e", "d", " ", "c", "u", "b", "e", "]", Grave, Grave,
       Grave, "m", "e", "r", "m", "a", "i", "d", "\n", "A", "-", "-", ">", "B", Grave, Grave,
       Grave, "\n", Grave, Grave, Grave, "t", "e", "x", "t", "\n", "p", "r", "i", "n", "t",
       "(", "1", ")", Grave, Grave, Grave, "\n", Grave, Grave, Grave, " ", Grave, Grave,
       Grave, "\n", "[", "C", "O", "N", "C", "E", "P", "T", "U", "A", "L", "_", "V", "I", "S",
       "U", "A", "L", ":", " ", "a", " ", "b", "l", "u", "e", " ", "b", "a", "l", "l", "]",
       Grave, Grave, Grave, "m", "e", "r", "m", "a", "i", "d", "\n", "G", "r", "a", "p", "h",
       " ", "L", "R", ";", " ", "C", "-", "-", "-", "D", Grave, Grave, Grave >>

\* 'A-->B'
DiagramAB ==
    << "A", "-", "-", ">", "B" >>

\* 'Graph LR; C---D'
DiagramCD ==
    << "G", "r", "a", "p", "h", " ", "L", "R", ";", " ", "C", "-", "-", "-", "D" >>

\* 'a blue ball'
BlueBallPrompt ==
    << "a", " ", "b", "l", "u", "e", " ", "b", "a", "l", "l" >>

\* 'R0lGOD'
InlineData ==
    << "R", "0", "l", "G", "O", "D" >>

\* 'image/gif'
MimeGif ==
    << "i", "m", "a", "g", "e", "/", "g", "i", "f" >>

\* 'data:image/gif;base64,R0lGOD'
InlineImageUrl ==
    << "d", "a", "t", "a", ":", "i", "m", "a", "g", "e", "/", "g", "i", "f", ";", "b", "a",
       "s", "e", "6", "4", ",", "R", "0", "l", "G", "O", "D" >>

\* 'data:image/png;base64,iVBOR'
GeneratedImageUrl ==
    << "d", "a", "t", "a", ":", "i", "m", "a", "g", "e", "/", "p", "n", "g", ";", "b", "a",
       "s", "e", "6", "4", ",", "i", "V", "B", "O", "R" >>

\* '(grave)(grave)(grave)\ngraph TD\nA---B\n(grave)(grave)(grave)\n(grave)(grave)(grave)mermaid\nA-->B(grave)(grave)(grave)\n(grave)(grave)(grave)FLOWCHART\n  Pie title Pets  \n(grave)(grave)(grave)\n(grave)(grave)(grave)text\nx-->y(grave)(grave)(grave)\n(grave)(grave)(grave)sequenceDiagram\nsequenceDiagram\nA->>B: hi(grave)(grave)(grave)'
ValidBlocksText ==
    << Grave, Grave, Grave, "\n", "g", "r", "a", "p", "h", " ", "T", "D", "\n", "A", "-", "-",
       "-", "B", "\n", Grave, Grave, Grave, "\n", Grave, Grave, Grave, "m", "e", "r", "m",
       "a", "i", "d", "\n", "A", "-", "-", ">", "B", Grave, Grave, Grave, "\n", Grave, Grave,
       Grave, "F", "L", "O", "W", "C", "H", "A", "R", "T", "\n", " ", " ", "P", "i", "e", " ",
       "t", "i", "t", "l", "e", " ", "P", "e", "t", "s", " ", " ", "\n", Grave, Grave, Grave,
       "\n", Grave, Grave, Grave, "t", "e", "x", "t", "\n", "x", "-", "-", ">", "y", Grave,
       Grave, Grave, "\n", Grave, Grave, Grave, "s", "e", "q", "u", "e", "n", "c", "e", "D",
       "i", "a", "g", "r", "a", "m", "\n", "s", "e", "q", "u", "e", "n", "c", "e", "D", "i",
       "a", "g", "r", "a", "m", "\n", "A", "-", ">", ">", "B", ":", " ", "h", "i", Grave,
       Grave, Grave >>

\* 'graph TD\nA---B'
BlockGraph ==
    << "g", "r", "a", "p", "h", " ", "T", "D", "\n", "A", "-", "-", "-", "B" >>

\* 'Pie title Pets'
BlockPie ==
    << "P", "i", "e", " ", "t", "i", "t", "l", "e", " ", "P", "e", "t", "s" >>

\* 'x-->y'
BlockXY ==
    << "x", "-", "-", ">", "y" >>

\* 'sequenceDiagram\nA->>B: hi'
BlockSequence ==
    << "s", "e", "q", "u", "e", "n", "c", "e", "D", "i", "a", "g", "r", "a", "m", "\n", "A",
       "-", ">", ">", "B", ":", " ", "h", "i" >>

\* '(grave)(grave)(grave)\nprint("hello")\n(grave)(grave)(grave)\n(grave)(grave)(grave)mermaid\njust words\n(grave)(grave)(grave)\n(grave)(grave)(grave)python\nprint(1)\n(grave)(grave)(grave)\n(grave)(grave)(grave)graphql\nquery { me }\n(grave)(grave)(grave)'
NonDiagramBlocksText ==
    << Grave, Grave, Grave, "\n", "p", "r", "i", "n", "t", "(", "\"", "h", "e", "l", "l", "o",
       "\"", ")", "\n", Grave, Grave, Grave, "\n", Grave, Grave, Grave, "m", "e", "r", "m",
       "a", "i", "d", "\n", "j", "u", "s", "t", " ", "w", "o", "r", "d", "s", "\n", Grave,
       Grave, Grave, "\n", Grave, Grave, Grave, "p", "y", "t", "h", "o", "n", "\n", "p", "r",
       "i", "n", "t", "(", "1", ")", "\n", Grave, Grave, Grave, "\n", Grave, Grave, Grave,
       "g", "r", "a", "p", "h", "q", "l", "\n", "q", "u", "e", "r", "y", " ", "{", " ", "m",
       "e", " ", "}", "\n", Grave, Grave, Grave >>

\* 'See [conceptual_visual:  a blue ball ] and [CONCEPTUAL_VISUAL:a red cube].'
DirectivesText ==
    << "S", "e", "e", " ", "[", "c", "o", "n", "c", "e", "p", "t", "u", "a", "l", "_", "v",
       "i", "s", "u", "a", "l", ":", " ", " ", "a", " ", "b", "l", "u", "e", " ", "b", "a",
       "l", "l", " ", "]", " ", "a", "n", "d", " ", "[", "C", "O", "N", "C", "E", "P", "T",
       "U", "A", "L", "_", "V", "I", "S", "U", "A", "L", ":", "a", " ", "r", "e", "d", " ",
       "c", "u", "b", "e", "]", "." >>

\* 'Use [CONCEPTUAL_VISUAL: a red cube here'
UnterminatedText ==
    << "U", "s", "e", " ", "[", "C", "O", "N", "C", "E", "P", "T", "U", "A", "L", "_", "V",
       "I", "S", "U", "A", "L", ":", " ", "a", " ", "r", "e", "d", " ", "c", "u", "b", "e",
       " ", "h", "e", "r", "e" >>

\* 'Use [CONCEPTUAL_VISUAL: a red cube here, see [1]'
UnterminatedThenBracketText ==
    << "U", "s", "e", " ", "[", "C", "O", "N", "C", "E", "P", "T", "U", "A", "L", "_", "V",
       "I", "S", "U", "A", "L", ":", " ", "a", " ", "r", "e", "d", " ", "c", "u", "b", "e",
       " ", "h", "e", "r", "e", ",", " ", "s", "e", "e", " ", "[", "1", "]" >>

(***************************************************************************)
(* The values the environment supplies: what the learner types, what the   *)
(* backend answers and how its calls fail.                                 *)
(***************************************************************************)

\* What the learner types into the chat box (onChange, line 455).
InputTexts ==
    {GiveMeTheFullCode, GiveCodeExplainLogic}

\* The customPrompt arguments of handleSendMessage: a quick-action literal
\* (line 432) and one prompt that the gate would refuse if it were typed.
CustomPrompts ==
    {QuizPrompt, ShowFullAnswerPrompt}

\* A part of a backend candidate: the fields the service layer reads.  An
\* absent text is <<>>, an absent functionCall has the name "", an absent
\* inlineData has the mimeType <<>>.
Part(text, callName, callStatus, mimeType, data) ==
    [text |-> text, functionCall |-> [name |-> callName, status |-> callStatus],
     inlineData |-> [mimeType |-> mimeType, data |-> data]]

TextPart(text) ==
    Part(text, "", "", <<>>, <<>>)

CallPart(name, status) ==
    Part(<<>>, name, status, <<>>, <<>>)

ImagePart(mimeType, data) ==
    Part(<<>>, "", "", mimeType, data)

hasFunctionCall(p) ==
    p.functionCall.name # ""

hasInlineData(p) ==
    p.inlineData.mimeType # <<>>

\* The candidates the chat backend answers with (response.candidates[0].content.parts).
ChatReplies ==
    { <<TextPart(DiagramReplyText), CallPart("updateMentorStatus", "satisfied")>>,
      <<TextPart(RedCubeReplyText), CallPart("updateMentorStatus", "searching")>>,
      <<TextPart(PlainReplyText)>> }

\* Candidates for the pipeline of extractVisualization: a text with two image
\* requests and four fenced blocks (a diagram with an arrow, a block that is
\* no diagram, an empty block and a diagram known by its keyword alone), the
\* first request ahead of the first block, together with an inline image; and
\* a text without any.
BlueprintReplies ==
    { <<TextPart(BlueprintReplyText), ImagePart(MimeGif, InlineData)>>,
      <<TextPart(PlainReplyText)>> }

\* Candidates for the two regular expressions of extractVisualization: fenced
\* blocks that are diagrams (no tag, each of the four tags, a tag in capitals,
\* padding around the content), fenced blocks that are none (no tag, a diagram
\* tag, two other languages), directives in either case with and without
\* padding, a directive that is never closed, one that is not closed before a
\* later bracket, a text without blocks or directives, the empty text, an
\* inline image without text, and an inline image beside a text that holds
\* blocks and directives.
ExtractReplies ==
    { <<TextPart(ValidBlocksText)>>,
      <<TextPart(NonDiagramBlocksText)>>,
      <<TextPart(DirectivesText)>>,
      <<TextPart(UnterminatedText)>>,
      <<TextPart(UnterminatedThenBracketText)>>,
      <<TextPart(PlainReplyText)>>,
      <<TextPart(<<>>)>>,
      <<ImagePart(MimeGif, InlineData)>>,
      <<TextPart(BlueprintReplyText), ImagePart(MimeGif, InlineData)>> }

\* The candidates the image backend answers with.
ImageReplies ==
    { <<ImagePart(MimePng, PngData)>>, <<>> }

\* The errors a backend call rejects with: status is 0 when the error carries
\* none, message is <<>> when it carries none.
ErrForbidden ==
    [status |-> 403, message |-> ForbiddenMessage]

ErrDenied ==
    [status |-> 0, message |-> DeniedMessage]

ErrNetwork ==
    [status |-> 0, message |-> NetworkMessage]

NoError ==
    [status |-> 0, message |-> <<>>]

TransportErrors ==
    {ErrForbidden, ErrDenied, ErrNetwork}

(***************************************************************************)
(* The service layer.                                                      *)
(***************************************************************************)

RECURSIVE lastMentorStatus(_)
\* Lines 762-773: the status of the last updateMentorStatus call among the parts.
lastMentorStatus(parts) ==
    IF parts = <<>> THEN "undefined"
    ELSE LET p == parts[Len(parts)]
         IN  IF hasFunctionCall(p) /\ p.functionCall.name = "updateMentorStatus"
             THEN p.functionCall.status
             ELSE lastMentorStatus(SubSeq(parts, 1, Len(parts) - 1))

RECURSIVE joinText(_)
\* Line 779: the text parts, concatenated.
joinText(parts) ==
    IF parts = <<>> THEN <<>> ELSE parts[1].text \o joinText(Tail(parts))

dataUrl(inlineData) ==
    DataUrlPrefix \o inlineData.mimeType \o DataUrlMiddle \o inlineData.data

RECURSIVE lastInlineImage(_)
\* Lines 780-782: the data URL of the last inlineData part, <<>> when there is none.
lastInlineImage(parts) ==
    IF parts = <<>> THEN <<>>
    ELSE IF hasInlineData(parts[Len(parts)])
         THEN dataUrl(parts[Len(parts)].inlineData)
         ELSE lastInlineImage(SubSeq(parts, 1, Len(parts) - 1))

\* What sendMessageToGemini returns for the candidate `parts`.
sendMessageToGemini(parts) ==
    LET anyCall == \E i \in 1..Len(parts) : hasFunctionCall(parts[i])
        finalText == joinText(parts)
    IN  [text |-> IF anyCall /\ finalText = <<>> THEN StatusOnlyText ELSE finalText,
         mentorStatus |-> lastMentorStatus(parts),
         imagePart |-> lastInlineImage(parts)]

NoResponse ==
    [text |-> <<>>, mentorStatus |-> "undefined", imagePart |-> <<>>]

RECURSIVE extractImage(_)
\* Lines 827-834: the data URL of the first inlineData part, <<>> for undefined.
extractImage(parts) ==
    IF parts = <<>> THEN <<>>
    ELSE IF hasInlineData(parts[1]) THEN dataUrl(parts[1].inlineData)
         ELSE extractImage(Tail(parts))

\* A variant of isPermissionError that looks at the status alone.
isPermissionErrorByStatus(e) ==
    e.status = 403

\* The test of lines 182, 297 and 847 on a rejected call.
isPermissionError(e) ==
    \/ e.status = 403
    \/ includes(e.message, Str403)
    \/ includes(e.message, StrPermissionDenied)

\* What a call to a model settles with: the parts of the candidate it resolves
\* with, or the error it rejects with.
Resolved(parts) ==
    [ok |-> TRUE, parts |-> parts, error |-> NoError]

Rejected(e) ==
    [ok |-> FALSE, parts |-> <<>>, error |-> e]

ImageOutcomes ==
    {Resolved(parts) : parts \in ImageReplies} \cup {Rejected(e) : e \in TransportErrors}

\* isPermissionError over the errors of this model, computed once.
isPermissionErrorOf ==
    [e \in TransportErrors |-> isPermissionError(e)]

\* The call that was not made.
NotCalled ==
    [ok |-> FALSE, parts |-> <<>>, error |-> NoError]

\* Lines 847-849: the fallback model is called after a permission error of the
\* primary one, and only then.
FallbackOutcomes(primary) ==
    IF ~primary.ok /\ isPermissionErrorOf[primary.error] THEN ImageOutcomes
    ELSE {NotCalled}

\* A variant of generateImage that throws the error of the fallback call.
generateImageThrowingFallbackError(primary, fallback) ==
    IF primary.ok
    THEN [threw |-> FALSE, image |-> extractImage(primary.parts), error |-> NoError]
    ELSE IF isPermissionErrorOf[primary.error]
         THEN IF fallback.ok
              THEN [threw |-> FALSE, image |-> extractImage(fallback.parts),
                    error |-> NoError]
              ELSE [threw |-> TRUE, image |-> <<>>, error |-> fallback.error]
         ELSE [threw |-> TRUE, image |-> <<>>, error |-> primary.error]

\* generateImage, lines 823-864: what it returns or throws when the call to the
\* primary model settles with primary and the call to the fallback model, if
\* it is made, with fallback.  It touches no state of the component between
\* its two awaits.
generateImage(primary, fallback) ==
    IF primary.ok
    THEN [threw |-> FALSE, image |-> extractImage(primary.parts), error |-> NoError]
    ELSE IF isPermissionErrorOf[primary.error] /\ fallback.ok
         THEN [threw |-> FALSE, image |-> extractImage(fallback.parts),
               error |-> NoError]
         ELSE [threw |-> TRUE, image |-> <<>>, error |-> primary.error]

\* What generateImage may return or throw, computed once.
generateImageResults ==
    UNION {{generateImage(primary, fallback) : fallback \in FallbackOutcomes(primary)} :
               primary \in ImageOutcomes}

(***************************************************************************)
(* The functions of the texts, computed once for the texts of this model   *)
(* and looked up by the handlers.                                          *)
(***************************************************************************)

\* The pairs of messageText and customPrompt handleSendMessage may meet.
Submissions ==
    {<<t, <<>>>> : t \in InputTexts \cup {<<>>}}
        \cup {<<c, c>> : c \in CustomPrompts \cup {VisualizePrompt}}

gateRefusesOf ==
    [s \in Submissions |-> gateRefuses(s[1], s[2])]

sendMessageToGeminiOf ==
    [parts \in ChatReplies \cup BlueprintReplies \cup ExtractReplies |->
        sendMessageToGemini(parts)]

\* The texts extractVisualization may be given.
ResponseTexts ==
    {sendMessageToGeminiOf[parts].text : parts \in DOMAIN sendMessageToGeminiOf}
(***************************************************************************)
(* The state of the App component.                                         *)
(***************************************************************************)

\* How many handler invocations one behaviour holds.
MaxOps ==
    2

\* How many items the Append to Blueprint button may bring the feed to.
MaxFeed ==
    2

\* How many milliseconds the clock of ClockSpec may advance.
MaxClock ==
    2

VARIABLES
    messages,           \* useState<Message[]>, line 95
    input,              \* line 103
    isLoading,          \* line 104
    visualization,      \* visualization.items, line 107
    mentorMode,         \* line 108
    showToast,          \* line 109
    toastMessage,       \* line 110
    imagePrompt,        \* line 122
    isGeneratingImage,  \* line 124
    generatedImageUrl,  \* line 125, <<>> for null
    ops,                \* the handler invocations so far, in order of invocation:
                        \* the locals of each and the await it is suspended at
    now,                \* Date.now(): Tick advances it in ClockSpec, the other
                        \* specifications hold it at the instant of construction
    aistudio,           \* whether window.aistudio exists
    lastDeclared        \* the mentorStatus of the latest chat-turn response that
                        \* declared one, "undefined" before the first

vars ==
    <<messages, input, isLoading, visualization, mentorMode, showToast, toastMessage,
      imagePrompt, isGeneratingImage, generatedImageUrl, ops, now, aistudio,
      lastDeclared>>

\* The id of the welcome message ('welcome', line 97): no Date.now() yields it.
WelcomeId ==
    0 - 1

Message(id, role, text, timestamp) ==
    [id |-> id, role |-> role, text |-> text, timestamp |-> timestamp]

VisualItem(type, content) ==
    [type |-> type, content |-> content]

\* messages.map(m => ({ role: m.role, parts: [{ text: m.text }] })), lines 221 and 257.
historyOf(msgs) ==
    [i \in 1..Len(msgs) |-> [role |-> msgs[i].role, text |-> msgs[i].text]]

\* The locals of a handler invocation before it has done anything.
NewOp(kind) ==
    [kind |-> kind, pc |-> "start",
     custom |-> <<>>,          \* customPrompt
     text |-> <<>>,            \* messageText / prompt / imagePrompt
     fileName |-> <<>>,        \* file.name
     seen |-> 0,               \* how many messages the closure holds
     response |-> NoResponse,  \* what sendMessageToGemini returned
     pending |-> <<>>,         \* prompts of conceptualMatches still to resolve
     newItems |-> <<>>]        \* newItems of extractVisualization

\* The contents sendMessageToGemini builds for op, lines 744-747: the history
\* of the closure and the message.  messages only grows, so the array the
\* closure holds is the prefix of messages of the length it had then.
contentsOf(op) ==
    Append(SubSeq(historyOf(messages), 1, op.seen),
           [role |-> "user", text |-> op.text])

Init ==
    /\ messages = <<Message(WelcomeId, "model", WelcomeText, 0)>>
    /\ input = <<>>
    /\ isLoading = FALSE
    /\ visualization = <<>>
    /\ mentorMode = FALSE
    /\ showToast = FALSE
    /\ toastMessage = InitialToast
    /\ imagePrompt = <<>>
    /\ isGeneratingImage = FALSE
    /\ generatedImageUrl = <<>>
    /\ ops = <<>>
    /\ now = 0
    /\ aistudio \in BOOLEAN
    /\ lastDeclared = "undefined"

(***************************************************************************)
(* extractVisualization, lines 135-200.                                    *)
(***************************************************************************)

RECURSIVE mermaidItemsUntested(_)
\* A variant of mermaidItems without the test of line 145.
mermaidItemsUntested(captures) ==
    IF captures = <<>> THEN <<>>
    ELSE <<VisualItem("mermaid", trim(captures[1]))>>
             \o mermaidItemsUntested(Tail(captures))

RECURSIVE mermaidItemsUntrimmed(_)
\* A variant of mermaidItems that keeps the capture as it was matched.
mermaidItemsUntrimmed(captures) ==
    IF captures = <<>> THEN <<>>
    ELSE (IF isDiagramSource(trim(captures[1]))
          THEN <<VisualItem("mermaid", captures[1])>> ELSE <<>>)
         \o mermaidItemsUntrimmed(Tail(captures))

RECURSIVE mermaidItems(_)
\* Lines 143-153: one item for each capture whose trimmed content passes the test.
mermaidItems(captures) ==
    IF captures = <<>> THEN <<>>
    ELSE LET content == trim(captures[1])
         IN  (IF isDiagramSource(content)
              THEN <<VisualItem("mermaid", content)>> ELSE <<>>)
             \o mermaidItems(Tail(captures))

\* A variant of imagePartItems without the test of line 156.
imagePartItemsUntested(imagePart) ==
    <<VisualItem("image", imagePart)>>

\* Lines 156-163: the inline image of the response.
imagePartItems(imagePart) ==
    IF imagePart # <<>> THEN <<VisualItem("image", imagePart)>> ELSE <<>>

\* Lines 166-168: the trimmed prompt of every directive.
conceptualPrompts(text) ==
    LET captures == conceptualCaptures(text, 1)
    IN  [i \in 1..Len(captures) |-> trim(captures[i])]

\* The two extractions over the texts of this model, computed once.
mermaidItemsOf ==
    [text \in ResponseTexts |-> mermaidItems(mermaidCaptures(text, 1))]

conceptualPromptsOf ==
    [text \in ResponseTexts |-> conceptualPrompts(text)]

\* A variant of mentorModeAfter without the else-if of line 235.
mentorModeAfterWithoutSearching(status, current) ==
    IF status = "satisfied" THEN TRUE ELSE current

\* Lines 234-235: the mentorMode after a chat turn whose response declared status.
mentorModeAfter(status, current) ==
    IF status = "satisfied" THEN TRUE
    ELSE IF status = "searching" THEN FALSE
    ELSE current

\* Variants of FinishTurn.  The first leaves the items out of the feed, the
\* second sets mentorMode at the end of an upload as well.
FinishTurnWithoutFeed(i, op, items) ==
    /\ visualization' = visualization
    /\ mentorMode' = IF op.kind = "chat"
                     THEN mentorModeAfter(op.response.mentorStatus, mentorMode)
                     ELSE mentorMode
    /\ isLoading' = FALSE
    /\ ops' = [ops EXCEPT ![i] = [op EXCEPT !.pc = "done", !.newItems = items,
                                            !.pending = <<>>]]

FinishTurnOfAnyKind(i, op, items) ==
    /\ visualization' = IF Len(items) > 0 THEN visualization \o items ELSE visualization
    /\ mentorMode' = mentorModeAfter(op.response.mentorStatus, mentorMode)
    /\ isLoading' = FALSE
    /\ ops' = [ops EXCEPT ![i] = [op EXCEPT !.pc = "done", !.newItems = items,
                                            !.pending = <<>>]]

\* Lines 192-199 and what follows the await in the caller: the items go to the
\* feed, a chat turn sets mentorMode (lines 234-235), and finally isLoading is
\* cleared (lines 239 and 263).
FinishTurn(i, op, items) ==
    /\ visualization' = IF Len(items) > 0 THEN visualization \o items ELSE visualization
    /\ mentorMode' = IF op.kind = "chat"
                     THEN mentorModeAfter(op.response.mentorStatus, mentorMode)
                     ELSE mentorMode
    /\ isLoading' = FALSE
    /\ ops' = [ops EXCEPT ![i] = [op EXCEPT !.pc = "done", !.newItems = items,
                                            !.pending = <<>>]]

\* A variant of NextCandidate that leaves the loop of line 167 after its
\* first round.
NextCandidateFirstOnly(i, op, items) ==
    /\ isGeneratingImage' = FALSE
    /\ FinishTurn(i, op, items)

\* A variant of NextCandidate without the finally of line 187.
NextCandidateWithoutFinally(i, op, items) ==
    IF Len(op.pending) > 1
    THEN /\ isGeneratingImage' = TRUE
         /\ ops' = [ops EXCEPT ![i] = [op EXCEPT !.pc = "image",
                                                 !.pending = Tail(op.pending),
                                                 !.newItems = items]]
         /\ UNCHANGED <<visualization, mentorMode, isLoading>>
    ELSE /\ UNCHANGED isGeneratingImage
         /\ FinishTurn(i, op, items)

\* The finally of line 187 after the directive at the head of op.pending, then
\* the next round of the loop of line 167 or the end of the pipeline.
NextCandidate(i, op, items) ==
    IF Len(op.pending) > 1
    THEN /\ isGeneratingImage' = TRUE
         /\ ops' = [ops EXCEPT ![i] = [op EXCEPT !.pc = "image",
                                                 !.pending = Tail(op.pending),
                                                 !.newItems = items]]
         /\ UNCHANGED <<visualization, mentorMode, isLoading>>
    ELSE /\ isGeneratingImage' = FALSE
         /\ FinishTurn(i, op, items)

\* A variant of StartPipeline that shows the diagrams and the inline image at
\* once and leaves the images of the directives for the end of the loop.
StartPipelineEagerFeed(i, op) ==
    LET text == op.response.text
        items == mermaidItemsOf[text]
                 \o imagePartItems(op.response.imagePart)
        prompts == conceptualPromptsOf[text]
    IN  IF Len(prompts) > 0
        THEN /\ isGeneratingImage' = TRUE
             /\ visualization' = visualization \o items
             /\ ops' = [ops EXCEPT ![i] = [op EXCEPT !.pc = "image",
                                                     !.pending = prompts,
                                                     !.newItems = <<>>]]
             /\ UNCHANGED <<mentorMode, isLoading>>
        ELSE /\ UNCHANGED isGeneratingImage
             /\ FinishTurn(i, op, items)

\* A variant of StartPipeline that leaves the inline image out when the text
\* holds a directive.
StartPipelineDeduplicating(i, op) ==
    LET text == op.response.text
        prompts == conceptualPromptsOf[text]
        items == mermaidItemsOf[text]
                 \o (IF Len(prompts) > 0 THEN <<>>
                     ELSE imagePartItems(op.response.imagePart))
    IN  IF Len(prompts) > 0
        THEN /\ isGeneratingImage' = TRUE
             /\ ops' = [ops EXCEPT ![i] = [op EXCEPT !.pc = "image",
                                                     !.pending = prompts,
                                                     !.newItems = items]]
             /\ UNCHANGED <<visualization, mentorMode, isLoading>>
        ELSE /\ UNCHANGED isGeneratingImage
             /\ FinishTurn(i, op, items)

\* A variant of StartPipeline that pushes the inline image ahead of the diagrams.
StartPipelineImageFirst(i, op) ==
    LET text == op.response.text
        items == imagePartItems(op.response.imagePart)
                 \o mermaidItemsOf[text]
        prompts == conceptualPromptsOf[text]
    IN  IF Len(prompts) > 0
        THEN /\ isGeneratingImage' = TRUE
             /\ ops' = [ops EXCEPT ![i] = [op EXCEPT !.pc = "image",
                                                     !.pending = prompts,
                                                     !.newItems = items]]
             /\ UNCHANGED <<visualization, mentorMode, isLoading>>
        ELSE /\ UNCHANGED isGeneratingImage
             /\ FinishTurn(i, op, items)

\* extractVisualization(response.text, response.imagePart) up to its first await.
StartPipeline(i, op) ==
    LET text == op.response.text
        items == mermaidItemsOf[text]
                 \o imagePartItems(op.response.imagePart)
        prompts == conceptualPromptsOf[text]
    IN  IF Len(prompts) > 0
        THEN /\ isGeneratingImage' = TRUE
             /\ ops' = [ops EXCEPT ![i] = [op EXCEPT !.pc = "image",
                                                     !.pending = prompts,
                                                     !.newItems = items]]
             /\ UNCHANGED <<visualization, mentorMode, isLoading>>
        ELSE /\ UNCHANGED isGeneratingImage
             /\ FinishTurn(i, op, items)

(***************************************************************************)
(* handleSendMessage, lines 202-240.                                       *)
(***************************************************************************)

\* The handler up to its first await.  customPrompt is <<>> when the handler is
\* called without an argument; typed is the input the closure holds.
handleSendMessage(customPrompt, typed) ==
    LET messageText == IF customPrompt # <<>> THEN customPrompt ELSE typed
        op == [NewOp("chat") EXCEPT !.custom = customPrompt, !.text = messageText]
    IN  /\ Len(ops) < MaxOps
        /\ IF trim(messageText) = <<>>
           THEN /\ ops' = Append(ops, [op EXCEPT !.pc = "blank"])
                /\ input' = typed
                /\ UNCHANGED <<messages, isLoading, showToast, toastMessage>>
           ELSE IF gateRefusesOf[<<messageText, customPrompt>>]
           THEN /\ toastMessage' = RejectionToast
                /\ showToast' = TRUE
                /\ ops' = Append(ops, [op EXCEPT !.pc = "rejected"])
                /\ input' = typed
                /\ UNCHANGED <<messages, isLoading>>
           ELSE /\ messages' = Append(messages, Message(now, "user", messageText, now))
                /\ input' = IF customPrompt = <<>> THEN <<>> ELSE typed
                /\ isLoading' = TRUE
                /\ ops' = Append(ops,
                       [op EXCEPT !.pc = "chat", !.seen = Len(messages)])
                /\ UNCHANGED <<showToast, toastMessage>>
        /\ UNCHANGED <<visualization, mentorMode, imagePrompt, isGeneratingImage,
                       generatedImageUrl, now, aistudio, lastDeclared>>

\* The learner leaves the chat box as it is or types t into it (onChange,
\* line 455), then presses Enter (line 456): no state disables the key.
PressEnter(t) ==
    handleSendMessage(<<>>, t)

\* The same, then the send button, lines 460-463.
ClickSend(t) ==
    /\ ~(isLoading \/ isGeneratingImage \/ trim(t) = <<>>)
    /\ handleSendMessage(<<>>, t)

\* A quick-action chip, lines 423-440.
QuickAction(prompt) ==
    /\ ~isLoading
    /\ handleSendMessage(prompt, input)

\* The Visualize chip, lines 242-244 and 441-446.
handleRequestVisualization ==
    /\ ~(isLoading \/ isGeneratingImage)
    /\ handleSendMessage(VisualizePrompt, input)

\* A variant of SendMessageReplied whose setMessages writes the array of the
\* closure and the two Messages of the turn instead of updating the current one.
SendMessageRepliedOverStaleMessages(i, parts) ==
    /\ ops[i].kind = "chat"
    /\ ops[i].pc = "chat"
    /\ LET response == sendMessageToGeminiOf[parts]
           op == [ops[i] EXCEPT !.response = response]
       IN  /\ messages' = Append(SubSeq(messages, 1, op.seen + 1),
                  Message(now + 1, "model",
                          IF response.text # <<>> THEN response.text ELSE FallbackReplyText,
                          now))
           /\ lastDeclared' = IF response.mentorStatus # "undefined"
                              THEN response.mentorStatus ELSE lastDeclared
           /\ StartPipeline(i, op)
    /\ UNCHANGED <<input, showToast, toastMessage, imagePrompt, generatedImageUrl,
                   now, aistudio>>

\* sendMessageToGemini resolves, lines 222-235.
SendMessageReplied(i, parts) ==
    /\ ops[i].kind = "chat"
    /\ ops[i].pc = "chat"
    /\ LET response == sendMessageToGeminiOf[parts]
           op == [ops[i] EXCEPT !.response = response]
       IN  /\ messages' = Append(messages,
                  Message(now + 1, "model",
                          IF response.text # <<>> THEN response.text ELSE FallbackReplyText,
                          now))
           /\ lastDeclared' = IF response.mentorStatus # "undefined"
                              THEN response.mentorStatus ELSE lastDeclared
           /\ StartPipeline(i, op)
    /\ UNCHANGED <<input, showToast, toastMessage, imagePrompt, generatedImageUrl,
                   now, aistudio>>

\* A variant of SendMessageFailed without the finally of line 239.
SendMessageFailedKeepsLoading(i) ==
    /\ ops[i].kind = "chat"
    /\ ops[i].pc = "chat"
    /\ messages' = Append(messages, Message(now, "model", ErrorReplyText, now))
    /\ ops' = [ops EXCEPT ![i].pc = "failed"]
    /\ UNCHANGED <<input, isLoading, visualization, mentorMode, showToast, toastMessage,
                   imagePrompt, isGeneratingImage, generatedImageUrl, now, aistudio,
                   lastDeclared>>

\* sendMessageToGemini rejects, lines 236-239.
SendMessageFailed(i) ==
    /\ ops[i].kind = "chat"
    /\ ops[i].pc = "chat"
    /\ messages' = Append(messages, Message(now, "model", ErrorReplyText, now))
    /\ isLoading' = FALSE
    /\ ops' = [ops EXCEPT ![i].pc = "failed"]
    /\ UNCHANGED <<input, visualization, mentorMode, showToast, toastMessage,
                   imagePrompt, isGeneratingImage, generatedImageUrl, now, aistudio,
                   lastDeclared>>

(***************************************************************************)
(* handleFileUpload, lines 246-266.                                        *)
(***************************************************************************)

\* onChange of the file input: the reader starts, the closure keeps messages.
handleFileUpload(fileName) ==
    /\ Len(ops) < MaxOps
    /\ ops' = Append(ops, [NewOp("upload") EXCEPT !.pc = "reading",
                                                          !.fileName = fileName,
                                                          !.seen = Len(messages)])
    /\ UNCHANGED <<messages, input, isLoading, visualization, mentorMode, showToast,
                   toastMessage, imagePrompt, isGeneratingImage, generatedImageUrl,
                   now, aistudio, lastDeclared>>

\* reader.onload, lines 250-259, up to the await.
FileLoaded(i, content) ==
    /\ ops[i].pc = "reading"
    /\ LET prompt == ReviewPrefix \o ops[i].fileName \o ReviewMiddle \o content
       IN  /\ messages' = Append(messages,
                  Message(now, "user",
                          UploadMsgPrefix \o ops[i].fileName \o UploadMsgSuffix, now))
           /\ isLoading' = TRUE
           /\ ops' = [ops EXCEPT ![i] = [@ EXCEPT !.pc = "chat", !.text = prompt]]
    /\ UNCHANGED <<input, visualization, mentorMode, showToast, toastMessage,
                   imagePrompt, isGeneratingImage, generatedImageUrl, now, aistudio,
                   lastDeclared>>

\* sendMessageToGemini resolves, lines 259-262.
FileUploadReplied(i, parts) ==
    /\ ops[i].kind = "upload"
    /\ ops[i].pc = "chat"
    /\ LET response == sendMessageToGeminiOf[parts]
           op == [ops[i] EXCEPT !.response = response]
       IN  /\ messages' = Append(messages,
                  Message(now + 1, "model",
                          IF response.text # <<>> THEN response.text ELSE FileProcessedText,
                          now))
           /\ StartPipeline(i, op)
    /\ UNCHANGED <<input, showToast, toastMessage, imagePrompt, generatedImageUrl,
                   now, aistudio, lastDeclared>>

\* sendMessageToGemini rejects, line 263.
FileUploadFailed(i) ==
    /\ ops[i].kind = "upload"
    /\ ops[i].pc = "chat"
    /\ isLoading' = FALSE
    /\ ops' = [ops EXCEPT ![i].pc = "failed"]
    /\ UNCHANGED <<messages, input, visualization, mentorMode, showToast, toastMessage,
                   imagePrompt, isGeneratingImage, generatedImageUrl, now, aistudio,
                   lastDeclared>>

(***************************************************************************)
(* generateImage (lines 823-864) and its callers: the loop of              *)
(* extractVisualization (lines 167-190) and handleGenerateImage             *)
(* (lines 268-305).                                                        *)
(***************************************************************************)

\* The prompts the learner types on the Canvas tab (onChange, line 581).
ImagePrompts ==
    {RedCubePrompt}

\* generateImage returned image (<<>> for undefined) to extractVisualization,
\* lines 172-179 and 187-189.
PipelineImageReturned(i, image) ==
    LET op == ops[i]
        items == IF image # <<>>
                 THEN Append(op.newItems, VisualItem("image", image))
                 ELSE op.newItems
    IN  /\ NextCandidate(i, op, items)
        /\ UNCHANGED <<messages, input, showToast, toastMessage, imagePrompt,
                       generatedImageUrl, now, aistudio, lastDeclared>>

\* A variant of PipelineImageThrew without the catch of line 180: the
\* exception reaches the catch and the finally of handleSendMessage.
PipelineImageThrewUncaught(i, e) ==
    /\ messages' = Append(messages, Message(now, "model", ErrorReplyText, now))
    /\ isLoading' = FALSE
    /\ ops' = [ops EXCEPT ![i] = [@ EXCEPT !.pc = "failed"]]
    /\ UNCHANGED <<input, visualization, mentorMode, showToast, toastMessage,
                   imagePrompt, isGeneratingImage, generatedImageUrl, now, aistudio,
                   lastDeclared>>

\* generateImage threw e into extractVisualization, lines 180-189.
PipelineImageThrew(i, e) ==
    LET op == ops[i]
    IN  /\ IF aistudio /\ isPermissionErrorOf[e]
           THEN /\ ops' = [ops EXCEPT ![i] = [op EXCEPT !.pc = "key"]]
                /\ UNCHANGED <<visualization, mentorMode, isLoading, isGeneratingImage>>
           ELSE NextCandidate(i, op, op.newItems)
        /\ UNCHANGED <<messages, input, showToast, toastMessage, imagePrompt,
                       generatedImageUrl, now, aistudio, lastDeclared>>

\* A variant of ManualImageReturned whose update of line 290 starts from the
\* feed of the render in which the handler was created, taken to be empty.
ManualImageReturnedOverStaleFeed(i, image) ==
    /\ visualization' = IF image # <<>>
                        THEN <<VisualItem("image", image)>>
                        ELSE visualization
    /\ generatedImageUrl' = IF image # <<>> THEN image ELSE generatedImageUrl
    /\ isGeneratingImage' = FALSE
    /\ ops' = [ops EXCEPT ![i] = [@ EXCEPT !.pc = "done"]]
    /\ UNCHANGED <<messages, input, isLoading, mentorMode, showToast, toastMessage,
                   imagePrompt, now, aistudio, lastDeclared>>

\* generateImage returned image to handleGenerateImage, lines 282-294 and 304.
ManualImageReturned(i, image) ==
    /\ visualization' = IF image # <<>>
                        THEN Append(visualization, VisualItem("image", image))
                        ELSE visualization
    /\ generatedImageUrl' = IF image # <<>> THEN image ELSE generatedImageUrl
    /\ isGeneratingImage' = FALSE
    /\ ops' = [ops EXCEPT ![i] = [@ EXCEPT !.pc = "done"]]
    /\ UNCHANGED <<messages, input, isLoading, mentorMode, showToast, toastMessage,
                   imagePrompt, now, aistudio, lastDeclared>>

\* generateImage threw e into handleGenerateImage, lines 295-304.
ManualImageThrew(i, e) ==
    /\ IF aistudio /\ isPermissionErrorOf[e]
       THEN /\ ops' = [ops EXCEPT ![i] = [@ EXCEPT !.pc = "key"]]
            /\ UNCHANGED isGeneratingImage
       ELSE /\ ops' = [ops EXCEPT ![i] = [@ EXCEPT !.pc = "failed"]]
            /\ isGeneratingImage' = FALSE
    /\ UNCHANGED <<messages, input, isLoading, visualization, mentorMode, showToast,
                   toastMessage, imagePrompt, generatedImageUrl, now, aistudio,
                   lastDeclared>>

ImageReturned(i, image) ==
    IF ops[i].kind = "manual" THEN ManualImageReturned(i, image)
    ELSE PipelineImageReturned(i, image)

ImageThrew(i, e) ==
    IF ops[i].kind = "manual" THEN ManualImageThrew(i, e)
    ELSE PipelineImageThrew(i, e)

\* The awaited generateImage of invocation i settles with result: the caller
\* goes on after line 171 or 282, or in its catch clause.
GenerateImageSettledWith(i, result) ==
    IF result.threw THEN ImageThrew(i, result.error)
    ELSE ImageReturned(i, result.image)

\* generateImage settles, its two calls having settled with primary and
\* fallback.
GenerateImageSettled(i) ==
    /\ ops[i].pc = "image"
    /\ \E result \in generateImageResults : GenerateImageSettledWith(i, result)

\* window.aistudio.openSelectKey() of line 184 or 299 settles; resolved tells
\* whether it resolved or rejected.
OpenSelectKeySettled(i, resolved) ==
    /\ ops[i].pc = "key"
    /\ IF ops[i].kind = "manual"
       THEN /\ toastMessage' = IF resolved THEN AccessDeniedToast ELSE toastMessage
            /\ showToast' = IF resolved THEN TRUE ELSE showToast
            /\ isGeneratingImage' = FALSE
            /\ ops' = [ops EXCEPT ![i] = [@ EXCEPT !.pc = "failed"]]
            /\ UNCHANGED <<visualization, mentorMode, isLoading>>
       ELSE /\ NextCandidate(i, ops[i], ops[i].newItems)
            /\ UNCHANGED <<showToast, toastMessage>>
    /\ UNCHANGED <<messages, input, imagePrompt, generatedImageUrl, now, aistudio,
                   lastDeclared>>

\* Lines 280-282: the generation starts.
StartManualImage(i, op) ==
    /\ isGeneratingImage' = TRUE
    /\ ops' = IF i > Len(ops) THEN Append(ops, [op EXCEPT !.pc = "image"])
              ELSE [ops EXCEPT ![i] = [op EXCEPT !.pc = "image"]]

\* The learner leaves the Canvas prompt as it is or types t into it (onChange,
\* line 581), then clicks Render Vision (lines 593-595): handleGenerateImage up
\* to its first await.
handleGenerateImage(t) ==
    /\ Len(ops) < MaxOps
    /\ ~(isGeneratingImage \/ trim(t) = <<>>)
    /\ imagePrompt' = t
    /\ LET op == [NewOp("manual") EXCEPT !.text = t]
       IN  IF aistudio
           THEN /\ ops' = Append(ops, [op EXCEPT !.pc = "hasKey"])
                /\ UNCHANGED isGeneratingImage
           ELSE StartManualImage(Len(ops) + 1, op)
    /\ UNCHANGED <<messages, input, isLoading, visualization, mentorMode, showToast,
                   toastMessage, generatedImageUrl, now, aistudio, lastDeclared>>

\* hasSelectedApiKey() settles, lines 273-277: answer is "yes", "no" or "rejected".
HasSelectedApiKeySettled(i, answer) ==
    /\ ops[i].pc = "hasKey"
    /\ IF answer = "no"
       THEN /\ ops' = [ops EXCEPT ![i].pc = "selectKey"]
            /\ UNCHANGED isGeneratingImage
       ELSE StartManualImage(i, ops[i])
    /\ UNCHANGED <<messages, input, isLoading, visualization, mentorMode, showToast,
                   toastMessage, imagePrompt, generatedImageUrl, now, aistudio,
                   lastDeclared>>

\* openSelectKey() of line 275 settles, resolved or rejected.
SelectKeySettled(i) ==
    /\ ops[i].pc = "selectKey"
    /\ StartManualImage(i, ops[i])
    /\ UNCHANGED <<messages, input, isLoading, visualization, mentorMode, showToast,
                   toastMessage, imagePrompt, generatedImageUrl, now, aistudio,
                   lastDeclared>>

\* The Append to Blueprint button, lines 603-626.
AppendToBlueprint ==
    /\ ~isGeneratingImage
    /\ generatedImageUrl # <<>>
    /\ Len(visualization) < MaxFeed
    /\ visualization' = Append(visualization, VisualItem("image", generatedImageUrl))
    /\ UNCHANGED <<messages, input, isLoading, mentorMode, showToast, toastMessage,
                   imagePrompt, isGeneratingImage, generatedImageUrl, ops, now,
                   aistudio, lastDeclared>>


Next ==
    \/ \E t \in InputTexts \cup {input} : PressEnter(t)
    \/ \E t \in InputTexts \cup {input} : ClickSend(t)
    \/ \E prompt \in CustomPrompts : QuickAction(prompt)
    \/ handleRequestVisualization
    \/ \E i \in 1..Len(ops), parts \in ChatReplies : SendMessageReplied(i, parts)
    \/ \E i \in 1..Len(ops) : SendMessageFailed(i)
    \/ handleFileUpload(DraftFileName)
    \/ \E i \in 1..Len(ops) : FileLoaded(i, DraftFileContent)
    \/ \E i \in 1..Len(ops), parts \in ChatReplies : FileUploadReplied(i, parts)
    \/ \E i \in 1..Len(ops) : FileUploadFailed(i)
    \/ \E i \in 1..Len(ops) : GenerateImageSettled(i)
    \/ \E i \in 1..Len(ops), resolved \in BOOLEAN : OpenSelectKeySettled(i, resolved)
    \/ \E t \in ImagePrompts \cup {imagePrompt} : handleGenerateImage(t)
    \/ \E i \in 1..Len(ops), answer \in {"yes", "no", "rejected"} :
           HasSelectedApiKeySettled(i, answer)
    \/ \E i \in 1..Len(ops) : SelectKeySettled(i)
    \/ AppendToBlueprint

Spec ==
    Init /\ [][Next]_vars

\* The program with the chat backend answering from BlueprintReplies and a
\* learner who chooses no file and whose quick action is the Quiz chip: every
\* pipeline is that of a chat turn.
BlueprintNext ==
    \/ \E t \in InputTexts \cup {input} : PressEnter(t)
    \/ \E t \in InputTexts \cup {input} : ClickSend(t)
    \/ QuickAction(QuizPrompt)
    \/ handleRequestVisualization
    \/ \E i \in 1..Len(ops), parts \in BlueprintReplies : SendMessageReplied(i, parts)
    \/ \E i \in 1..Len(ops) : SendMessageFailed(i)
    \/ \E i \in 1..Len(ops) : GenerateImageSettled(i)
    \/ \E i \in 1..Len(ops), resolved \in BOOLEAN : OpenSelectKeySettled(i, resolved)
    \/ \E t \in ImagePrompts \cup {imagePrompt} : handleGenerateImage(t)
    \/ \E i \in 1..Len(ops), answer \in {"yes", "no", "rejected"} :
           HasSelectedApiKeySettled(i, answer)
    \/ \E i \in 1..Len(ops) : SelectKeySettled(i)
    \/ AppendToBlueprint

BlueprintSpec ==
    Init /\ [][BlueprintNext]_vars

\* The steps of the turns alone: a learner who submits through the Enter key
\* and the quick-action chips and chooses files, and leaves the image panel
\* untouched.  These are the steps that write messages.
ConversationNext ==
    \/ \E t \in InputTexts \cup {input} : PressEnter(t)
    \/ \E prompt \in CustomPrompts : QuickAction(prompt)
    \/ \E i \in 1..Len(ops), parts \in ChatReplies : SendMessageReplied(i, parts)
    \/ \E i \in 1..Len(ops) : SendMessageFailed(i)
    \/ handleFileUpload(DraftFileName)
    \/ \E i \in 1..Len(ops) : FileLoaded(i, DraftFileContent)
    \/ \E i \in 1..Len(ops), parts \in ChatReplies : FileUploadReplied(i, parts)
    \/ \E i \in 1..Len(ops) : FileUploadFailed(i)
    \/ \E i \in 1..Len(ops) : GenerateImageSettled(i)
    \/ \E i \in 1..Len(ops), resolved \in BOOLEAN : OpenSelectKeySettled(i, resolved)

ConversationSpec ==
    Init /\ [][ConversationNext]_vars

\* The steps of a session in which the learner asks through one quick-action
\* chip and the chat backend answers from ExtractReplies.
ExtractNext ==
    \/ QuickAction(QuizPrompt)
    \/ \E i \in 1..Len(ops), parts \in ExtractReplies : SendMessageReplied(i, parts)
    \/ \E i \in 1..Len(ops) : SendMessageFailed(i)
    \/ \E i \in 1..Len(ops) : GenerateImageSettled(i)
    \/ \E i \in 1..Len(ops), resolved \in BOOLEAN : OpenSelectKeySettled(i, resolved)

ExtractSpec ==
    Init /\ [][ExtractNext]_vars

\* A millisecond passes: Date.now() is read at lines 215, 225, 238, 253 and 260
\* and never set, and any number of steps may fall into one millisecond.
Tick ==
    /\ now < MaxClock
    /\ now' = now + 1
    /\ UNCHANGED <<messages, input, isLoading, visualization, mentorMode, showToast,
                   toastMessage, imagePrompt, isGeneratingImage, generatedImageUrl, ops,
                   aistudio, lastDeclared>>

\* The steps of Next under a clock that advances between them or does not.
ClockNext ==
    \/ Next
    \/ Tick

ClockSpec ==
    Init /\ [][ClockNext]_vars
(***************************************************************************)
(* Vocabulary of the properties.                                           *)
(***************************************************************************)

\* The awaits of a chat or upload turn: its chat call, the image calls of its
\* response and the key selection they may open.
TurnAwaits ==
    {"chat", "image", "key"}

\* Turn i is between its submission and its return to Idle.
TurnAwaiting(i) ==
    /\ i <= Len(ops)
    /\ ops[i].kind \in {"chat", "upload"}
    /\ ops[i].pc \in TurnAwaits

\* Every handler invoked so far has returned.
Quiescent ==
    \A i \in 1..Len(ops) : ops[i].pc \in {"blank", "rejected", "done", "failed"}

\* The step invokes handleSendMessage: it is the latest entry of ops'.
SubmissionStep ==
    /\ Len(ops') = Len(ops) + 1
    /\ ops'[Len(ops')].kind = "chat"

\* The text holds one of the words logic, explain, diagram, in any case.
HasMitigatingWord(text) ==
    \E w \in {WordLogic, WordExplain, WordDiagram} : includes(toLowerCase(text), w)

\* The step leaves the conversation, the feed, the flags and every turn in
\* flight as they are.
NothingMutated ==
    /\ messages' = messages
    /\ visualization' = visualization
    /\ mentorMode' = mentorMode
    /\ isLoading' = isLoading
    /\ isGeneratingImage' = isGeneratingImage
    /\ SubSeq(ops', 1, Len(ops)) = ops

(***************************************************************************)
(* Fairness: a backend call that was issued runs to completion or failure, *)
(* and a file that is being read is read.  Nothing makes the learner act,  *)
(* so no fairness is stated for the handlers or for the key selection,     *)
(* which waits for the learner.                                            *)
(***************************************************************************)

BackendSettles ==
    \/ \E i \in 1..Len(ops), parts \in ChatReplies : SendMessageReplied(i, parts)
    \/ \E i \in 1..Len(ops) : SendMessageFailed(i)
    \/ \E i \in 1..Len(ops) : FileLoaded(i, DraftFileContent)
    \/ \E i \in 1..Len(ops), parts \in ChatReplies : FileUploadReplied(i, parts)
    \/ \E i \in 1..Len(ops) : FileUploadFailed(i)
    \/ \E i \in 1..Len(ops) : GenerateImageSettled(i)
    \/ \E i \in 1..Len(ops), answer \in {"yes", "no", "rejected"} :
           HasSelectedApiKeySettled(i, answer)

FairSpec ==
    Spec /\ WF_vars(BackendSettles)

(***************************************************************************)
(* C1.  At most one chat backend call is pending at any instant: a second  *)
(* submission made while a call is pending starts no second call.          *)
(***************************************************************************)

C1_AtMostOneChatCallPending ==
    Cardinality({i \in 1..Len(ops) : ops[i].pc = "chat"}) <= 1

(***************************************************************************)
(* C2.  Every turn that enters AwaitingBackend eventually returns to Idle, *)
(* whatever the outcome of its chat call and of each image call.           *)
(***************************************************************************)

C2_EveryTurnReturnsToIdle ==
    \A i \in 1..MaxOps : TurnAwaiting(i) ~> (~TurnAwaiting(i) /\ ~isLoading)

(***************************************************************************)
(* C3.  A submission without a custom prompt whose text matches cheatRegex *)
(* and holds none of logic, explain, diagram is refused: no Message is     *)
(* appended, no backend call is made, isLoading, the feed and mentorMode   *)
(* stay as they are; only the rejection notice is raised.                  *)
(***************************************************************************)

C3_GateRefuses ==
    [][ (/\ SubmissionStep
         /\ ops'[Len(ops')].custom = <<>>
         /\ cheatRegexTest(ops'[Len(ops')].text)
         /\ ~HasMitigatingWord(ops'[Len(ops')].text))
        => (/\ ops'[Len(ops')].pc = "rejected"
            /\ NothingMutated
            /\ showToast'
            /\ toastMessage' = RejectionToast) ]_vars

\* A refused submission: the notice is up and the conversation holds the
\* welcome message alone.
C3_Witness ==
    /\ Len(ops) = 1
    /\ ops[1].pc = "rejected"
    /\ ops[1].text = GiveMeTheFullCode
    /\ showToast
    /\ toastMessage = RejectionToast
    /\ Len(messages) = 1

(***************************************************************************)
(* C4.  A submission without a custom prompt that matches cheatRegex but   *)
(* holds one of logic, explain, diagram is not refused: its user Message   *)
(* is appended and the chat backend is called with it.                     *)
(***************************************************************************)

C4_MitigatedSubmissionProceeds ==
    [][ (/\ SubmissionStep
         /\ ops'[Len(ops')].custom = <<>>
         /\ cheatRegexTest(ops'[Len(ops')].text)
         /\ HasMitigatingWord(ops'[Len(ops')].text))
        => (/\ ops'[Len(ops')].pc = "chat"
            /\ Len(messages') = Len(messages) + 1
            /\ SubSeq(messages', 1, Len(messages)) = messages
            /\ messages'[Len(messages')].role = "user"
            /\ messages'[Len(messages')].text = ops'[Len(ops')].text
            /\ ops'[Len(ops')].seen = Len(messages)
            /\ isLoading') ]_vars

C4_Witness ==
    \E i \in 1..Len(ops) :
        /\ ops[i].custom = <<>>
        /\ ops[i].text = GiveCodeExplainLogic
        /\ cheatRegexTest(ops[i].text)
        /\ ops[i].pc = "chat"
        /\ messages[Len(messages)].text = GiveCodeExplainLogic

(***************************************************************************)
(* C5.  A submission with a custom prompt never meets the gate: its user   *)
(* Message is appended and the chat backend is called, even when the       *)
(* prompt matches cheatRegex and holds no mitigating word.                 *)
(***************************************************************************)

C5_CustomPromptBypassesGate ==
    [][ (/\ SubmissionStep
         /\ ops'[Len(ops')].custom # <<>>)
        => (/\ ops'[Len(ops')].pc = "chat"
            /\ ops'[Len(ops')].text = ops'[Len(ops')].custom
            /\ messages' = Append(messages,
                                 Message(now, "user", ops'[Len(ops')].custom, now))
            /\ ops'[Len(ops')].seen = Len(messages)
            /\ isLoading') ]_vars

C5_Witness ==
    \E i \in 1..Len(ops) :
        /\ ops[i].custom = ShowFullAnswerPrompt
        /\ cheatRegexTest(ops[i].custom)
        /\ ~HasMitigatingWord(ops[i].custom)
        /\ ops[i].pc = "chat"
        /\ messages[Len(messages)].text = ShowFullAnswerPrompt

(***************************************************************************)
(* C6.  An accepted turn whose chat call succeeds appends exactly two      *)
(* Messages, the user Message at the submission and one assistant Message  *)
(* at the reply, nothing after, and its end clears isLoading.  When the    *)
(* only turn asked GiveCodeExplainLogic and the response holds the one     *)
(* mermaid block "flowchart TD; A-->B" and declares satisfied, the         *)
(* conversation is                                                         *)
(* welcome, user, assistant, the feed holds exactly one mermaid item with  *)
(* that content and mentorMode is TRUE.                                    *)
(***************************************************************************)

C6_TurnStep ==
    /\ (SubmissionStep /\ ops'[Len(ops')].pc = "chat")
           => messages' = Append(messages,
                                 Message(now, "user", ops'[Len(ops')].text, now))
    /\ \A i \in 1..Len(ops) :
           (ops[i].kind = "chat" /\ ops'[i] # ops[i])
               => /\ (ops[i].pc = "chat" /\ ops'[i].pc # "failed")
                         => /\ Len(messages') = Len(messages) + 1
                            /\ SubSeq(messages', 1, Len(messages)) = messages
                            /\ messages'[Len(messages')].role = "model"
                            /\ ops'[i].response.text # <<>>
                                   => messages'[Len(messages')].text
                                          = ops'[i].response.text
                  /\ ops[i].pc # "chat" => messages' = messages
                  /\ ops'[i].pc = "done" => ~isLoading'

C6_Scenario ==
    (/\ Len(ops) = 1
     /\ ops[1].kind = "chat"
     /\ ops[1].pc = "done"
     /\ ops[1].text = GiveCodeExplainLogic
     /\ ops[1].response.text = DiagramReplyText
     /\ ops[1].response.mentorStatus = "satisfied")
        => /\ historyOf(messages)
                  = <<[role |-> "model", text |-> WelcomeText],
                      [role |-> "user", text |-> GiveCodeExplainLogic],
                      [role |-> "model", text |-> DiagramReplyText]>>
           /\ visualization = <<VisualItem("mermaid", FlowchartTDAB)>>
           /\ mentorMode
           /\ ~isLoading

C6_SuccessfulTurn ==
    []C6_Scenario /\ [][C6_TurnStep]_vars

C6_Witness ==
    /\ Len(ops) = 1
    /\ ops[1].kind = "chat"
    /\ ops[1].pc = "done"
    /\ ops[1].text = GiveCodeExplainLogic
    /\ ops[1].response.text = DiagramReplyText
    /\ ops[1].response.mentorStatus = "satisfied"
    /\ Len(messages) = 3
    /\ Len(visualization) = 1
    /\ mentorMode

(***************************************************************************)
(* C7.  When the chat call of a turn fails, the step appends exactly the   *)
(* fixed error Message after the user Message of the turn, appends nothing *)
(* to the feed, leaves mentorMode as it is and clears isLoading.           *)
(***************************************************************************)

C8_MentorFromDeclaredStatus ==
    [][ \A i \in 1..Len(ops) :
            (ops[i].kind = "chat" /\ ops[i].pc \in TurnAwaits /\ ops'[i].pc = "done")
                => /\ ops'[i].response.mentorStatus = "satisfied" => mentorMode'
                   /\ ops'[i].response.mentorStatus = "searching" => ~mentorMode'
                   /\ ops'[i].response.mentorStatus = "undefined"
                          => mentorMode' = mentorMode ]_vars

\* A turn declared satisfied, and the next one, declaring searching, took
\* mentorMode back.
C8_Witness ==
    /\ Len(ops) = 2
    /\ ops[1].kind = "chat" /\ ops[1].pc = "done"
    /\ ops[1].response.mentorStatus = "satisfied"
    /\ ops[2].kind = "chat" /\ ops[2].pc = "done"
    /\ ops[2].response.mentorStatus = "searching"
    /\ ops[2].seen = 3
    /\ ~mentorMode

(***************************************************************************)
(* C9.  Once every handler has returned, mentorMode is the status declared *)
(* by the response received last among those that declared one, searching  *)
(* if none did: the status of an older response never replaces a newer one.*)
(***************************************************************************)

C9_MentorIsLatestDeclared ==
    Quiescent => (mentorMode <=> (lastDeclared = "satisfied"))

(***************************************************************************)
(* C10.  mentorMode starts as searching, and only the end of a successful  *)
(* chat turn changes it: a refusal, a failed turn, an upload, the image    *)
(* panel and the feed controls leave it as it is.                          *)
(***************************************************************************)

C10_MentorChangesOnlyAtTurnEnd ==
    /\ ~mentorMode
    /\ [][ mentorMode' # mentorMode
              => \E i \in 1..Len(ops) :
                     /\ ops[i].kind = "chat"
                     /\ ops[i].pc \in TurnAwaits
                     /\ ops'[i].pc = "done"
                     /\ ops'[i].response.mentorStatus \in {"satisfied", "searching"} ]_vars

\* mentorMode is TRUE after an upload whose response declared searching.
C10_Witness ==
    /\ mentorMode
    /\ \E i \in 1..Len(ops) :
           /\ ops[i].kind = "upload"
           /\ ops[i].pc = "done"
           /\ ops[i].response.mentorStatus = "searching"
           /\ \E j \in 1..(i - 1) : ops[j].kind = "chat" /\ ops[j].pc = "done"

(***************************************************************************)
(* C11.  Whenever a chat backend call is issued, its contents are the      *)
(* history of all the Messages the conversation held before the user       *)
(* Message of the turn, in order, followed once by the submitted text.     *)
(***************************************************************************)

\* Invocation i issues its call to sendMessageToGemini in this step.
ChatCallIssued(i) ==
    /\ i \in 1..Len(ops')
    /\ ops'[i].pc = "chat"
    /\ i \in 1..Len(ops) => ops[i].pc # "chat"

C11_HistoryIsWholeConversation ==
    [][ \A i \in 1..MaxOps :
            ChatCallIssued(i)
                => /\ Len(messages') = Len(messages) + 1
                   /\ messages'[Len(messages')].role = "user"
                   /\ contentsOf(ops'[i])
                          = Append(historyOf(messages),
                                   [role |-> "user", text |-> ops'[i].text]) ]_vars

(***************************************************************************)
(* C12.  The step that ends the pipeline of a response with image          *)
(* requests leaves isGeneratingImage FALSE, whether the last generation    *)
(* returned an image, returned nothing or threw, with or without an        *)
(* authorization signal.                                                   *)
(***************************************************************************)

\* Invocation i is a chat or upload turn resolving the image requests of its
\* response.
ResolvingCandidates(i) ==
    /\ ops[i].kind \in {"chat", "upload"}
    /\ ops[i].pc \in {"image", "key"}

C12_FlagReleasedAtPipelineEnd ==
    [][ \A i \in 1..Len(ops) :
            (ResolvingCandidates(i) /\ ops'[i].pc = "done")
                => ~isGeneratingImage' ]_vars

\* One pipeline ended with its image and another without, the flag released.
C12_Witness ==
    /\ Len(ops) = 2
    /\ \A i \in 1..2 :
           /\ ops[i].kind \in {"chat", "upload"}
           /\ ops[i].pc = "done"
           /\ ops[i].response.text = RedCubeReplyText
    /\ Len(ops[1].newItems) = 1
    /\ Len(ops[2].newItems) = 0
    /\ ~isGeneratingImage

(***************************************************************************)
(* C13.  In every reachable state, if a call to generateImage is in        *)
(* flight, of a chat turn, of an upload turn or of the Canvas tab, then    *)
(* isGeneratingImage is TRUE.                                              *)
(***************************************************************************)

C13_FlagHeldWhileGenerating ==
    (\E i \in 1..Len(ops) : ops[i].pc = "image") => isGeneratingImage

(***************************************************************************)
(* C14.  A generation that throws or returns nothing adds no item for its  *)
(* candidate and nothing else happens to the turn: the items found so far  *)
(* are kept, no Message is appended, the turn goes on to the next          *)
(* candidate, to the key selection or to its end, and at its end all the   *)
(* items found go to the feed.  A generation that returns an image adds    *)
(* its item whatever happened to the candidates before it.                 *)
(***************************************************************************)

\* The items a turn has found so far stay as they are, at the front.
KeepsItemsFound(i) ==
    /\ Len(ops'[i].newItems) >= Len(ops[i].newItems)
    /\ SubSeq(ops'[i].newItems, 1, Len(ops[i].newItems)) = ops[i].newItems

C14_FailedCandidateOnly ==
    [][ \A i \in 1..Len(ops) :
            (ResolvingCandidates(i) /\ ops'[i] # ops[i])
                => /\ messages' = messages
                   /\ ops'[i].pc \in {"image", "key", "done"}
                   /\ KeepsItemsFound(i)
                   /\ ops'[i].pc = "done"
                          => visualization' = visualization \o ops'[i].newItems
                   /\ \A result \in generateImageResults :
                          (ops[i].pc = "image" /\ GenerateImageSettledWith(i, result))
                              => ops'[i].newItems
                                     = IF result.threw \/ result.image = <<>>
                                       THEN ops[i].newItems
                                       ELSE Append(ops[i].newItems,
                                                   VisualItem("image", result.image)) ]_vars

\* The only turn ended with both diagrams, the inline image and the image of
\* one of its two requests, and the conversation holds no error Message.
C14_Witness ==
    /\ Len(ops) = 1
    /\ ops[1].kind = "chat"
    /\ ops[1].pc = "done"
    /\ ops[1].response.text = BlueprintReplyText
    /\ visualization = <<VisualItem("mermaid", DiagramAB),
                         VisualItem("mermaid", DiagramCD),
                         VisualItem("image", InlineImageUrl),
                         VisualItem("image", GeneratedImageUrl)>>
    /\ Len(messages) = 3
    /\ messages[3].text = BlueprintReplyText

(***************************************************************************)
(* C15.  When the generation of an image request settles, the turn opens   *)
(* the key selection exactly when generateImage threw an error with        *)
(* status 403 or with a message holding "403" or "Permission denied", and  *)
(* window.aistudio exists.                                                 *)
(***************************************************************************)

\* The errors that carry an authorization signal.
AuthorizationErrors ==
    {e \in TransportErrors :
         \/ e.status = 403
         \/ includes(e.message, <<"4", "0", "3">>)
         \/ includes(e.message, <<"P", "e", "r", "m", "i", "s", "s", "i", "o", "n", " ",
                                  "d", "e", "n", "i", "e", "d">>)}

C15_KeySelectionOnAuthorizationFailure ==
    [][ \A i \in 1..Len(ops) :
            (/\ ResolvingCandidates(i)
             /\ ops[i].pc = "image"
             /\ ops'[i] # ops[i])
                => \A result \in generateImageResults :
                       GenerateImageSettledWith(i, result)
                           => (ops'[i].pc = "key"
                                   <=> (/\ result.threw
                                        /\ result.error \in AuthorizationErrors
                                        /\ aistudio)) ]_vars

\* A turn waits for the key selection, and another ended without opening it.
C15_Witness ==
    /\ aistudio
    /\ Len(ops) = 2
    /\ ops[1].kind = "chat" /\ ops[1].pc = "done"
    /\ ops[1].response.text = BlueprintReplyText
    /\ ops[2].kind = "chat" /\ ops[2].pc = "key"

(***************************************************************************)
(* C16.  A turn that has opened the key selection goes on whether the      *)
(* selection resolves, rejects or never settles: it releases               *)
(* isGeneratingImage, resolves the remaining requests, hands its items to  *)
(* the feed and returns.                                                   *)
(***************************************************************************)

C16_KeySelectionDoesNotBlock ==
    \A i \in 1..MaxOps :
        (TurnAwaiting(i) /\ ops[i].pc = "key")
            ~> (i <= Len(ops) /\ ops[i].pc = "done")

(***************************************************************************)
(* C17.  A turn has one backend call in flight at a time.  While its chat  *)
(* call is pending it has asked for no image; the chat call answered, it   *)
(* asks for the image of the first request of the text; it asks for the    *)
(* image of the next request in the step in which the call before has      *)
(* settled or its key selection has; and it ends only when the call for    *)
(* the last request has settled.                                           *)
(***************************************************************************)

C17_CallsOfATurnInSequence ==
    [][ \A i \in 1..Len(ops) :
            ops[i].kind = "chat"
                => /\ ops[i].pc = "chat" => ops[i].pending = <<>>
                   /\ (ops[i].pc = "chat" /\ ops'[i].pc = "image"
                           /\ ops'[i].response.text = BlueprintReplyText)
                          => ops'[i].pending = <<RedCubePrompt, BlueBallPrompt>>
                   /\ (ops[i].pc = "chat" /\ ops'[i].pc = "done")
                          => ops'[i].response.text # BlueprintReplyText
                   /\ (ops[i].pc \in {"image", "key"} /\ ops'[i] # ops[i])
                          => \/ /\ ops[i].pc = "image"
                                /\ ops'[i].pc = "key"
                                /\ ops'[i].pending = ops[i].pending
                             \/ /\ ops'[i].pc = "image"
                                /\ Len(ops[i].pending) > 1
                                /\ ops'[i].pending = Tail(ops[i].pending)
                             \/ /\ ops'[i].pc = "done"
                                /\ Len(ops[i].pending) = 1 ]_vars

\* The image of the first request is in, that of the second is awaited.
C17_Witness ==
    /\ Len(ops) = 1
    /\ ops[1].kind = "chat"
    /\ ops[1].pc = "image"
    /\ ops[1].pending = <<BlueBallPrompt>>
    /\ Len(ops[1].newItems) = 4
    /\ isLoading

(***************************************************************************)
(* C18.  The items a response adds to the feed are its diagrams in the     *)
(* order of the text, then its inline image, then the images of its        *)
(* requests: the image of a request goes behind everything found before,   *)
(* whether the requests before it yielded an image or not, and the feed    *)
(* receives the items in that order.                                       *)
(***************************************************************************)

\* What extractVisualization finds in the Blueprint response before its first
\* image call, although the first request stands ahead of the first diagram.
BlueprintItemsFound ==
    <<VisualItem("mermaid", DiagramAB), VisualItem("mermaid", DiagramCD),
      VisualItem("image", InlineImageUrl)>>

C18_ItemsInDirectiveOrder ==
    [][ \A i \in 1..Len(ops) :
            (ops[i].kind = "chat" /\ ops'[i].response.text = BlueprintReplyText)
                => /\ (ops[i].pc = "chat" /\ ops'[i] # ops[i])
                          => ops'[i].newItems = BlueprintItemsFound
                   /\ (ops[i].pc \in {"image", "key"} /\ ops'[i] # ops[i])
                          => /\ ops'[i].newItems
                                    \in {ops[i].newItems,
                                         Append(ops[i].newItems,
                                                VisualItem("image", GeneratedImageUrl))}
                             /\ Len(ops'[i].newItems)
                                    <= 5 - (IF ops'[i].pc = "done"
                                            THEN 0 ELSE Len(ops'[i].pending))
                             /\ ops'[i].pc = "done"
                                    => /\ Len(visualization')
                                              = Len(visualization) + Len(ops'[i].newItems)
                                       /\ SubSeq(visualization', 1, Len(visualization))
                                              = visualization
                                       /\ SubSeq(visualization', Len(visualization) + 1,
                                                 Len(visualization'))
                                              = ops'[i].newItems ]_vars

\* Both requests yielded their image: the feed holds the diagrams, the inline
\* image and the two images, in this order.
C18_Witness ==
    /\ Len(ops) = 1
    /\ ops[1].kind = "chat"
    /\ ops[1].pc = "done"
    /\ ops[1].response.text = BlueprintReplyText
    /\ ops[1].newItems = BlueprintItemsFound \o <<VisualItem("image", GeneratedImageUrl),
                                                 VisualItem("image", GeneratedImageUrl)>>
    /\ visualization = ops[1].newItems
    /\ ~isGeneratingImage

(***************************************************************************)
(* C19.  The feed only grows at its end: in every step, whichever chat     *)
(* turns, upload turns and manual generations are in flight, the feed      *)
(* before the step is a prefix of the feed after it, so no item is         *)
(* removed, moved, replaced or changed.                                    *)
(***************************************************************************)

C19_FeedIsAppendOnly ==
    [][ /\ Len(visualization') >= Len(visualization)
        /\ SubSeq(visualization', 1, Len(visualization)) = visualization ]_vars

\* A turn and a manual generation have both appended their image: the feed
\* holds the two.
C19_Witness ==
    /\ Len(ops) = 2
    /\ ops[1].kind \in {"chat", "upload"} /\ ops[1].pc = "done"
    /\ ops[2].kind = "manual" /\ ops[2].pc = "done"
    /\ Len(ops[1].newItems) = 1
    /\ generatedImageUrl # <<>>
    /\ Len(visualization) = 2

(***************************************************************************)
(* C20.  In every reachable state every item of the feed has a content     *)
(* that is not empty, and the content of every diagram item starts with    *)
(* one of the diagram keywords, in any case, or holds "-->".               *)
(***************************************************************************)

\* The content starts with a diagram keyword, whatever the case of its
\* letters, or holds an arrow.
PlausibleDiagram(content) ==
    \/ \E kw \in DiagramKeywords :
           /\ Len(content) >= Len(kw)
           /\ toLowerCase(SubSeq(content, 1, Len(kw))) = toLowerCase(kw)
    \/ \E p \in 1..(Len(content) - 2) : SubSeq(content, p, p + 2) = <<"-", "-", ">">>

C20_FeedItemsWellFormed ==
    \A k \in 1..Len(visualization) :
        /\ visualization[k].content # <<>>
        /\ visualization[k].type = "mermaid" => PlausibleDiagram(visualization[k].content)

\* The feed holds a diagram known by its arrow, one known by its keyword in
\* another case, and an image.
C20_Witness ==
    /\ Len(visualization) >= 3
    /\ visualization[1] = VisualItem("mermaid", DiagramAB)
    /\ visualization[2] = VisualItem("mermaid", DiagramCD)
    /\ visualization[3].type = "image"

(***************************************************************************)
(* The two regular expressions of extractVisualization over the replies of *)
(* ExtractReplies.                                                         *)
(***************************************************************************)

\* Whether invocation i is a chat turn that has left the pipeline, the text
\* of its response being text.
PipelineDoneFor(i, text) ==
    /\ ops[i].kind = "chat"
    /\ ops[i].pc = "done"
    /\ ops[i].response.text = text

\* Whether this step hands the response of the chat call to the pipeline of
\* invocation i, the text of the response being text.
PipelineStartsFor(i, text) ==
    /\ ops[i].kind = "chat"
    /\ ops[i].pc = "chat"
    /\ ops'[i].pc \in {"image", "done"}
    /\ ops'[i].response.text = text

(***************************************************************************)
(* C21.  Every fenced block whose trimmed inner content starts with a      *)
(* diagram keyword or holds an arrow gives exactly one diagram item, whose *)
(* content is that trimmed inner text: the response with five such blocks  *)
(* (no tag and a keyword; the tag mermaid and an arrow; the tag flowchart  *)
(* in capitals and a keyword in another case with padding; the tag text    *)
(* and an arrow; the tag sequenceDiagram and a keyword) gives these five   *)
(* items in the order of the blocks, and nothing else.                     *)
(***************************************************************************)

C21_DiagramBlocksKept ==
    \A i \in 1..Len(ops) :
        PipelineDoneFor(i, ValidBlocksText)
            => ops[i].newItems = <<VisualItem("mermaid", BlockGraph),
                                   VisualItem("mermaid", DiagramAB),
                                   VisualItem("mermaid", BlockPie),
                                   VisualItem("mermaid", BlockXY),
                                   VisualItem("mermaid", BlockSequence)>>

\* The only turn ended on the response with the five blocks, and its items
\* are the feed.
C21_Witness ==
    /\ Len(ops) = 1
    /\ PipelineDoneFor(1, ValidBlocksText)
    /\ Len(visualization) = 5
    /\ visualization = ops[1].newItems

(***************************************************************************)
(* C22.  A fenced block whose body, the text after the language tag of the *)
(* opening fence, neither starts with a diagram keyword nor holds an arrow *)
(* gives no diagram item: the response with four such blocks (print code   *)
(* without a tag, words under the tag mermaid, code under the tag python,  *)
(* a query under the tag graphql) gives no item.                           *)
(***************************************************************************)

C22_OtherBlocksDropped ==
    \A i \in 1..Len(ops) :
        PipelineDoneFor(i, NonDiagramBlocksText) => ops[i].newItems = <<>>

(***************************************************************************)
(* C23.  Every well-formed directive, its tag in either case, causes one   *)
(* image request whose prompt is the enclosed text trimmed, and a          *)
(* directive without its closing bracket causes no request and no error:   *)
(* when the response reaches the pipeline, the requests of the text with   *)
(* two directives are the two trimmed prompts in their order, and a text   *)
(* whose only directive is not closed ends the turn at once, the busy flag *)
(* as it was and the response the only Message appended.                   *)
(***************************************************************************)

C24_NothingToExtract ==
    [][ \A i \in 1..Len(ops) :
            \A text \in {PlainReplyText, <<>>} :
                (PipelineStartsFor(i, text) /\ ops'[i].response.imagePart = <<>>)
                    => /\ ops'[i].pc = "done"
                       /\ ops'[i].newItems = <<>>
                       /\ ops'[i].pending = <<>>
                       /\ isGeneratingImage' = isGeneratingImage
                       /\ visualization' = visualization ]_vars

\* A turn ended on the empty text after a turn that left five items: the feed
\* is still those five items, and the busy flag is down.
C24_Witness ==
    /\ Len(ops) = 2
    /\ PipelineDoneFor(1, ValidBlocksText)
    /\ PipelineDoneFor(2, <<>>)
    /\ ops[2].newItems = <<>>
    /\ visualization = ops[1].newItems
    /\ Len(visualization) = 5
    /\ ~isGeneratingImage
    /\ messages[5].text = FallbackReplyText

(***************************************************************************)
(* C25.  The inline image of a response gives exactly one image item,      *)
(* whose content is the data URL of the payload, whether the response has  *)
(* a text or not; and a generation of a directive of the same response     *)
(* that returns an image appends its own item behind it.                   *)
(***************************************************************************)

\* The positions of the items of op that show the inline image.
InlineImageItems(op) ==
    {k \in 1..Len(op.newItems) : op.newItems[k] = VisualItem("image", InlineImageUrl)}

C25_InlineImageKept ==
    [][ \A i \in 1..Len(ops) :
            (/\ ops[i].kind = "chat"
             /\ ops'[i].pc \in {"image", "key", "done"}
             /\ ops'[i].response.imagePart # <<>>)
                => /\ ops'[i].response.imagePart = InlineImageUrl
                   /\ Cardinality(InlineImageItems(ops'[i])) = 1
                   /\ \A k \in 1..Len(ops'[i].newItems) :
                          ops'[i].newItems[k].type = "image"
                              => ops'[i].newItems[k].content
                                     \in {InlineImageUrl, GeneratedImageUrl}
                   /\ (ops[i].pc = "image" /\ ops'[i] # ops[i])
                          => \A result \in generateImageResults :
                                 (/\ GenerateImageSettledWith(i, result)
                                  /\ ~result.threw
                                  /\ result.image # <<>>)
                                     => ops'[i].newItems
                                            = Append(ops[i].newItems,
                                                     VisualItem("image", result.image)) ]_vars

\* A turn ended on the inline image alone, and a turn ended on the inline
\* image beside two diagrams and two directives whose generations both
\* returned an image: the feed holds the items of both.
C25_Witness ==
    /\ Len(ops) = 2
    /\ PipelineDoneFor(1, <<>>)
    /\ ops[1].newItems = <<VisualItem("image", InlineImageUrl)>>
    /\ PipelineDoneFor(2, BlueprintReplyText)
    /\ ops[2].newItems = <<VisualItem("mermaid", DiagramAB),
                           VisualItem("mermaid", DiagramCD),
                           VisualItem("image", InlineImageUrl),
                           VisualItem("image", GeneratedImageUrl),
                           VisualItem("image", GeneratedImageUrl)>>
    /\ visualization = ops[1].newItems \o ops[2].newItems

(***************************************************************************)
(* C26.  The conversation history is append-only and its Messages are      *)
(* immutable: in every step, whatever turns and uploads overlap, the       *)
(* Messages held before the step are the first Messages after it, each as  *)
(* it was, and at most one Message is added.                               *)
(***************************************************************************)

C26_MessagesAppendOnly ==
    [][ /\ Len(messages') \in {Len(messages), Len(messages) + 1}
        /\ SubSeq(messages', 1, Len(messages)) = messages ]_vars

\* A chat turn and an upload that was chosen before it both have their
\* response, the upload last: the conversation holds the welcome and the two
\* Messages of each, although the closure of the upload held the welcome only.
C26_Witness ==
    /\ Len(ops) = 2
    /\ ops[1].kind = "upload" /\ ops[1].pc = "done" /\ ops[1].seen = 1
    /\ ops[2].kind = "chat" /\ ops[2].pc = "done"
    /\ Len(messages) = 5
    /\ messages[2].text = ops[2].text
    /\ messages[5].text = ops[1].response.text

(***************************************************************************)
(* C27.  In every reachable state, if the chat call or the pipeline of a   *)
(* chat turn or of an upload is still in progress, then isLoading is TRUE. *)
(***************************************************************************)

C27_LoadingHeldWhileTurnRuns ==
    (\E i \in 1..Len(ops) :
         /\ ops[i].kind \in {"chat", "upload"}
         /\ ops[i].pc \in {"chat", "image", "key"})
        => isLoading

(***************************************************************************)
(* C28.  The items of one response reach the feed in one update, made when *)
(* every image request of the response has resolved: a step of a turn that *)
(* does not end it leaves the feed as it was, the step that ends it puts   *)
(* all its items behind the feed, next to each other and in their order,   *)
(* and any other step that changes the feed adds one item behind it.       *)
(***************************************************************************)

\* Invocation i is a chat or upload turn that waits for its response or
\* resolves the image requests of it.
TurnInProgress(i) ==
    /\ ops[i].kind \in {"chat", "upload"}
    /\ ops[i].pc \in {"chat", "image", "key"}

C28_ItemsOfAResponseInOneUpdate ==
    [][ /\ \A i \in 1..Len(ops) :
               (TurnInProgress(i) /\ ops'[i] # ops[i])
                   => IF ops'[i].pc = "done"
                      THEN visualization' = visualization \o ops'[i].newItems
                      ELSE visualization' = visualization
        /\ (/\ visualization' # visualization
            /\ \A i \in 1..Len(ops) : TurnInProgress(i) => ops'[i] = ops[i])
               => /\ Len(visualization') = Len(visualization) + 1
                  /\ SubSeq(visualization', 1, Len(visualization)) = visualization ]_vars

\* Two turns overlapped on the response with two diagrams, an inline image
\* and two directives, the second ended first: the feed holds the items of
\* the second, three or more, and behind them those of the first.
C28_Witness ==
    /\ Len(ops) = 2
    /\ PipelineDoneFor(1, BlueprintReplyText)
    /\ PipelineDoneFor(2, BlueprintReplyText)
    /\ ops[2].seen = 2
    /\ ops[1].newItems # ops[2].newItems
    /\ visualization = ops[2].newItems \o ops[1].newItems

(***************************************************************************)
(* C29.  In every state in which a call to generateImage is in flight,     *)
(* however the backend settles its calls: generateImage calls the backend  *)
(* at most twice for the prompt, the fallback model exactly when the call  *)
(* to the primary model failed with an authorization signal.  What the     *)
(* primary model resolved with is returned; after an authorization         *)
(* failure, what the fallback model resolved with is returned and nothing  *)
(* is thrown, and if the fallback call fails too the error of the primary  *)
(* call is thrown; any other failure of the primary call is thrown as it   *)
(* is.                                                                     *)
(***************************************************************************)

\* The image of the candidate a model resolved with, <<>> when it holds none.
ImageOf(outcome) ==
    IF outcome.parts = <<>> THEN <<>> ELSE GeneratedImageUrl

C29_FallbackOnAuthorizationFailureOnly ==
    (\E i \in 1..Len(ops) : ops[i].pc = "image")
        => \A primary \in ImageOutcomes :
               /\ NotCalled \notin FallbackOutcomes(primary)
                      <=> (~primary.ok /\ primary.error \in AuthorizationErrors)
               /\ NotCalled \in FallbackOutcomes(primary)
                      => FallbackOutcomes(primary) = {NotCalled}
               /\ \A fallback \in FallbackOutcomes(primary) :
                      LET result == generateImage(primary, fallback)
                      IN  IF primary.ok
                          THEN ~result.threw /\ result.image = ImageOf(primary)
                          ELSE IF fallback.ok
                          THEN ~result.threw /\ result.image = ImageOf(fallback)
                          ELSE result.threw /\ result.error = primary.error

\* With window.aistudio, one turn ended with the image of its directive in
\* the feed and another waits for the key selection: generateImage returned
\* an image to the first and threw an authorization error into the second.
C29_Witness ==
    /\ aistudio
    /\ Len(ops) = 2
    /\ PipelineDoneFor(1, UnterminatedThenBracketText)
    /\ visualization = <<VisualItem("image", GeneratedImageUrl)>>
    /\ ops[2].kind = "chat"
    /\ ops[2].pc = "key"
    /\ isGeneratingImage

(***************************************************************************)
(* C30.  In every reachable state the Messages of the conversation have    *)
(* pairwise distinct ids, under a clock that never goes back and need not  *)
(* advance between two events.                                             *)
(***************************************************************************)

C30_MessageIdsDistinct ==
    \A j, k \in 1..Len(messages) :
        j # k => messages[j].id # messages[k].id
====
